---------------------------- MODULE Spec2Model ----------------------------
(***************************************************************************)
(* Verification model of ver-por-que's core:                               *)
(*   - SegmentHierarchyBuilder (buildAll, getSegmentsForLevel, findSegment)*)
(*   - SegmentLayoutCalculator (calculateSegmentWidths)                    *)
(*   - SvgByteVisualizer's drill-down navigation state machine             *)
(*   - SvgByteVisualizer's level groups and their removal timers           *)
(*   - URLFileAdapter's chunk cache                                        *)
(*                                                                         *)
(* JavaScript strings are modelled as sequences of tokens.  A token is     *)
(* either the separator "_", a single character of the alphabet user       *)
(* supplied names are drawn from ("a", "b", "."), a decimal digit, or one  *)
(* of the fixed words the builder writes into ids ("chunk", "rowgroup",    *)
(* ...).  No fixed word can be spelled with the name alphabet, so two      *)
(* token sequences are equal exactly when the JavaScript strings are, and  *)
(* template literals are sequence concatenation.                           *)
(*                                                                         *)
(* An optional JavaScript value (a field that may be absent or null) is a  *)
(* sequence of length 0 (absent) or 1 (present).                           *)
(***************************************************************************)
EXTENDS Integers, Sequences, FiniteSets, TLC

VARIABLES
    fileData,          \* the JSON payload handed to buildAll / initWithData
    cache,             \* FileStructureAnalyzer.cache (result of buildAll)
    bpc,               \* builder harness position: "loaded" | "built" | "threw" | "queried"
    query,             \* id last passed to findSegment
    found,             \* result of the last findSegment (option)
    lsegs,             \* layout harness: the segments passed to calculateSegmentWidths
    lwidth,            \* layout harness: containerWidth
    lout,              \* layout harness: the returned layout objects
    lpc,               \* layout harness position: "idle" | "input" | "done" | "level"
    levels,            \* SvgByteVisualizer.levels: the stack of displayed levels
    selectedSegments,  \* SvgByteVisualizer.selectedSegments: Map levelIndex -> segment id
    selectionPath,     \* SvgByteVisualizer.selectionPath: selected segments, root first
    npc,               \* visualizer position: "idle" | "constructed" | "waiting" | "ready"
    last,              \* history: the last event handled and the state it started from
    dom,               \* the level groups in the SVG element, see the DOM section
    urlSize,           \* URLFileAdapter.size (Undef while null)
    urlPosition,       \* URLFileAdapter.position
    urlCache,          \* URLFileAdapter.cache: the Map's keys in insertion order
    pending,           \* range requests sent and not yet answered
    recent,            \* history: the cached keys, least recently read first
    ulast,             \* history: the last adapter call, the key it evicted, the reads so far
    upc                \* adapter position: "idle" | "constructed" | "initialized"

bvars == <<fileData, cache, bpc, query, found>>

lvars == <<lsegs, lwidth, lout, lpc>>

nvars == <<levels, selectedSegments, selectionPath, npc, last, dom>>

uvars == <<urlSize, urlPosition, urlCache, pending, recent, ulast, upc>>

vars == <<bvars, lvars, nvars, uvars>>

-----------------------------------------------------------------------------
(* Strings as token sequences *)

US == <<"_">>

DigitTok == <<"0", "1", "2", "3", "4", "5", "6", "7", "8", "9">>

RECURSIVE NumStr(_)
\* template-literal formatting of a non-negative integer: `${n}`
NumStr(n) == IF n < 10 THEN <<DigitTok[n + 1]>>
             ELSE NumStr(n \div 10) \o <<DigitTok[(n % 10) + 1]>>

IsDigitTok(t) == \E i \in 1..10 : DigitTok[i] = t

DigitVal(t) == CHOOSE i \in 0..9 : DigitTok[i + 1] = t

NaN == -999999

Undef == -999998

IsNum(x) == x # NaN /\ x # Undef

RECURSIVE ParseDigits(_, _)
ParseDigits(s, acc) == IF s = <<>> \/ ~IsDigitTok(Head(s)) THEN acc
                       ELSE ParseDigits(Tail(s), acc * 10 + DigitVal(Head(s)))

\* parseInt(s): the leading run of digits, NaN when there is none
parseInt(s) == IF s = <<>> \/ ~IsDigitTok(Head(s)) THEN NaN ELSE ParseDigits(s, 0)

RECURSIVE SplitAcc(_, _, _)
SplitAcc(s, cur, acc) ==
    IF s = <<>> THEN Append(acc, cur)
    ELSE IF Head(s) = "_" THEN SplitAcc(Tail(s), <<>>, Append(acc, cur))
    ELSE SplitAcc(Tail(s), Append(cur, Head(s)), acc)

\* s.split('_')
Split(s) == SplitAcc(s, <<>>, <<>>)

\* parts[i] of a split with 0-based index i; "undefined" becomes the empty string,
\* whose parseInt is NaN like parseInt(undefined)
Part(parts, i) == IF i + 1 <= Len(parts) THEN parts[i + 1] ELSE <<>>

\* s.startsWith(p)
StartsWith(s, p) == Len(s) >= Len(p) /\ SubSeq(s, 1, Len(p)) = p

\* s.includes('meta'): with the token alphabet only these tokens contain it
IncludesMeta(s) == \E i \in 1..Len(s) : s[i] \in {"meta", "metadata"}

\* s.includes('chunk_')
IncludesChunkUS(s) == \E i \in 1..(Len(s) - 1) : s[i] = "chunk" /\ s[i + 1] = "_"

\* key.replace(/[^a-zA-Z0-9]/g, '_')
Sanitize(s) == [i \in 1..Len(s) |-> IF s[i] \in {"_", "."} THEN "_" ELSE s[i]]

\* a || d for numbers: 0, NaN and undefined are falsy
OrNum(a, d) == IF a = 0 \/ a = NaN \/ a = Undef THEN d ELSE a

\* a + b for numbers
Plus(a, b) == IF IsNum(a) /\ IsNum(b) THEN a + b ELSE NaN

Max2(a, b) == IF a >= b THEN a ELSE b

Min2(a, b) == IF a <= b THEN a ELSE b

RECURSIVE MathMin(_)
\* Math.min(...xs) over a non-empty sequence; NaN if any argument is not a number
MathMin(xs) == IF \E i \in 1..Len(xs) : ~IsNum(xs[i]) THEN NaN
               ELSE IF Len(xs) = 1 THEN xs[1]
               ELSE Min2(xs[1], MathMin(Tail(xs)))

RECURSIVE MathMax(_)
MathMax(xs) == IF \E i \in 1..Len(xs) : ~IsNum(xs[i]) THEN NaN
               ELSE IF Len(xs) = 1 THEN xs[1]
               ELSE Max2(xs[1], MathMax(Tail(xs)))

\* Math.ceil(a / b) for a >= 0, b > 0
CeilDiv(a, b) == (a + b - 1) \div b

RECURSIVE SumSeq(_)
SumSeq(xs) == IF xs = <<>> THEN 0 ELSE Plus(xs[1], SumSeq(Tail(xs)))

RECURSIVE Flatten(_)
Flatten(ss) == IF ss = <<>> THEN <<>> ELSE Head(ss) \o Flatten(Tail(ss))

Range(s) == {s[i] : i \in 1..Len(s)}


-----------------------------------------------------------------------------
(* JavaScript objects used as string-keyed maps: a sequence of entries in    *)
(* insertion order.  Assigning to an existing key keeps its position.        *)

MapHas(m, k) == \E i \in 1..Len(m) : m[i].k = k

MapGet(m, k) == IF MapHas(m, k) THEN <<m[CHOOSE i \in 1..Len(m) : m[i].k = k].v>> ELSE <<>>

MapPut(m, k, v) ==
    IF MapHas(m, k) THEN [i \in 1..Len(m) |-> IF m[i].k = k THEN [k |-> k, v |-> v] ELSE m[i]]
    ELSE Append(m, [k |-> k, v |-> v])

RECURSIVE MapPutAll(_, _)
MapPutAll(m, es) == IF es = <<>> THEN m
                    ELSE MapPutAll(MapPut(m, Head(es).k, Head(es).v), Tail(es))

\* Object.values(m) of a map whose values are arrays, concatenated in order
MapValuesFlat(m) == Flatten([i \in 1..Len(m) |-> m[i].v])

HasField(r, f) == f \in DOMAIN r

-----------------------------------------------------------------------------
(* ParquetSegment *)

\* the fields the constructor copies; absent optional fields are Undef / <<>>
Segment(id, name, start, end) ==
    [id |-> id, name |-> name, start |-> start, end |-> end,
     rowGroupIndex |-> Undef, chunkIndex |-> Undef, pageIndex |-> Undef,
     columnPath |-> <<>>, metadata |-> <<>>,
     physicalMetadata |-> <<>>, logicalMetadata |-> <<>>]

\* _validateRequired and _validate: TRUE when the constructor does not throw.
\* Comparisons with NaN are false, so a NaN bound passes.
Validate(seg) ==
    /\ seg.start # Undef
    /\ seg.end # Undef
    /\ ~(IsNum(seg.start) /\ seg.start < 0)
    /\ ~(IsNum(seg.start) /\ IsNum(seg.end) /\ seg.end < seg.start)
    /\ \A x \in {seg.rowGroupIndex, seg.chunkIndex, seg.pageIndex} : ~(IsNum(x) /\ x < 0)

\* get size()
SizeOf(seg) == IF IsNum(seg.start) /\ IsNum(seg.end) THEN Max2(0, seg.end - seg.start) ELSE NaN

IsGroupWithChildren(seg) ==
    /\ seg.metadata # <<>>
    /\ HasField(seg.metadata[1], "children")
    /\ seg.metadata[1].children # <<>>
    /\ HasField(seg.metadata[1], "element_type")
    /\ seg.metadata[1].element_type = "group"

\* get childLevelName(); "null" stands for null
childLevelName(seg) ==
    IF seg.id = <<"metadata">> THEN "metadatastructure"
    ELSE IF seg.id = <<"rowgroups">> THEN "rowgroups"
    ELSE IF seg.id = <<"schema", "_", "root">> THEN "schemaelements"
    ELSE IF seg.id = <<"row", "_", "groups", "_", "metadata">> THEN "rowgroupelements"
    ELSE IF seg.id = <<"column", "_", "indices">> THEN "indexelements"
    ELSE IF seg.id = <<"key", "_", "value", "_", "metadata">> THEN "keyvaluemetadata"
    ELSE IF seg.rowGroupIndex # Undef /\ seg.chunkIndex = Undef /\ ~IncludesMeta(seg.id)
         THEN "columnchunks"
    ELSE IF StartsWith(seg.id, <<"rowgroup", "_", "meta", "_">>) THEN "columnchunkmetadata"
    ELSE IF seg.chunkIndex # Undef /\ seg.pageIndex = Undef THEN "pages"
    ELSE IF IsGroupWithChildren(seg) THEN "schemaelements"
    ELSE "null"

-----------------------------------------------------------------------------
(* ParquetConstants.FILE_STRUCTURE *)

MAGIC_SIZE == 4

FOOTER_SIZE == 8

-----------------------------------------------------------------------------
(* SegmentHierarchyBuilder *)

RECURSIVE InsertByStart(_, _)
\* position-preserving insertion used by SortByStart
InsertByStart(sorted, seg) ==
    IF sorted = <<>> THEN <<seg>>
    ELSE IF seg.start < Head(sorted).start THEN <<seg>> \o sorted
    ELSE <<Head(sorted)>> \o InsertByStart(Tail(sorted), seg)

RECURSIVE SortByStart(_)
\* segments.sort((a, b) => a.start - b.start): stable, ascending by start
SortByStart(segs) ==
    IF segs = <<>> THEN <<>>
    ELSE InsertByStart(SortByStart(SubSeq(segs, 1, Len(segs) - 1)), segs[Len(segs)])

Inner(fd) == fd.metadata.metadata

RowGroupsOf(fd) == IF Inner(fd).row_groups = <<>> THEN <<>> ELSE Inner(fd).row_groups[1]

\* variant that rounds the block size down instead of up
_getChunksForRowGroup_floor(fd, rowGroupIndex) ==
    LET numRowGroups == OrNum(Len(RowGroupsOf(fd)), 1)
        chunksPerRowGroup == Len(fd.column_chunks) \div numRowGroups
        startIndex == rowGroupIndex * chunksPerRowGroup
        endIndex == Min2(startIndex + chunksPerRowGroup, Len(fd.column_chunks))
    IN  SubSeq(fd.column_chunks, startIndex + 1, endIndex)

_getChunksForRowGroup(fd, rowGroupIndex) ==
    LET numRowGroups == OrNum(Len(RowGroupsOf(fd)), 1)
        chunksPerRowGroup == CeilDiv(Len(fd.column_chunks), numRowGroups)
        startIndex == rowGroupIndex * chunksPerRowGroup
        endIndex == Min2(startIndex + chunksPerRowGroup, Len(fd.column_chunks))
    IN  SubSeq(fd.column_chunks, startIndex + 1, endIndex)

\* variant that counts chunkIndex from the end of the row group's chunks
_getChunkData_fromEnd(fd, rowGroupIndex, chunkIndex) ==
    LET rowGroupChunks == _getChunksForRowGroup(fd, rowGroupIndex)
    IN  IF chunkIndex + 1 <= Len(rowGroupChunks)
        THEN <<rowGroupChunks[Len(rowGroupChunks) - chunkIndex]>> ELSE <<>>

_getChunkData(fd, rowGroupIndex, chunkIndex) ==
    LET rowGroupChunks == _getChunksForRowGroup(fd, rowGroupIndex)
    IN  IF chunkIndex + 1 <= Len(rowGroupChunks) THEN <<rowGroupChunks[chunkIndex + 1]>> ELSE <<>>

_findColumnMetadata(fd, rowGroupIndex, columnPath) ==
    IF rowGroupIndex + 1 > Len(RowGroupsOf(fd)) THEN <<>>
    ELSE LET rowGroup == RowGroupsOf(fd)[rowGroupIndex + 1]
         IN  IF rowGroup.column_chunks = <<>> THEN <<>>
             ELSE MapGet(rowGroup.column_chunks[1], columnPath)

RECURSIVE _calculateSchemaLength(_)
_calculateSchemaLength(node) ==
    Plus(OrNum(node.byte_length, 0),
         IF node.children = <<>> THEN 0
         ELSE SumSeq([i \in 1..Len(node.children[1]) |->
                         _calculateSchemaLength(node.children[1][i].v)]))

_extractColumnIndicesInfo(fd) ==
    LET rgs == RowGroupsOf(fd)
        OfEntry(rgIndex, e) ==
            IF OrNum(e.v.column_index_offset, 0) # 0 /\ OrNum(e.v.column_index_length, 0) # 0
            THEN << [path |-> e.k, row_group |-> rgIndex, type |-> <<"column", "_", "index">>,
                     offset |-> e.v.column_index_offset, size |-> e.v.column_index_length],
                    [path |-> e.k, row_group |-> rgIndex, type |-> <<"offset", "_", "index">>,
                     offset |-> e.v.column_index_offset + e.v.column_index_length,
                     size |-> Max2(50, (e.v.column_index_length * 3) \div 10)] >>
            ELSE <<>>
        OfRowGroup(rgIndex) ==
            LET rg == rgs[rgIndex + 1]
            IN  IF rg.column_chunks = <<>> THEN <<>>
                ELSE Flatten([i \in 1..Len(rg.column_chunks[1]) |->
                                 OfEntry(rgIndex, rg.column_chunks[1][i])])
    IN  Flatten([r \in 1..Len(rgs) |-> OfRowGroup(r - 1)])

\* variant whose fallback row-group end forgets the footer
buildOverviewSegments_noFooter(fd) ==
    LET metadataSize == OrNum(fd.metadata.total_byte_size, fd.metadata.json_length)
        chunks == fd.column_chunks
        allOffsets == [i \in 1..Len(chunks) |-> chunks[i].start_offset]
        allEnds == [i \in 1..Len(chunks) |-> Plus(chunks[i].start_offset, chunks[i].total_byte_size)]
        rowGroupsStart == IF Len(chunks) > 0 THEN MathMin(allOffsets) ELSE MAGIC_SIZE
        rowGroupsEnd == IF Len(chunks) > 0 THEN MathMax(allEnds)
                        ELSE fd.filesize - metadataSize
    IN  << Segment(<<"header", "_", "magic">>, <<"MAGIC">>, 0, MAGIC_SIZE),
           Segment(<<"rowgroups">>, <<"ROWGROUPS">>, rowGroupsStart, rowGroupsEnd),
           Segment(<<"metadata">>, <<"METADATA">>, rowGroupsEnd, fd.filesize - FOOTER_SIZE),
           Segment(<<"footer">>, <<"FOOTER">>, fd.filesize - FOOTER_SIZE, fd.filesize - MAGIC_SIZE),
           Segment(<<"footer", "_", "magic">>, <<"MAGIC">>, fd.filesize - MAGIC_SIZE, fd.filesize) >>

buildOverviewSegments(fd) ==
    LET metadataSize == OrNum(fd.metadata.total_byte_size, fd.metadata.json_length)
        chunks == fd.column_chunks
        allOffsets == [i \in 1..Len(chunks) |-> chunks[i].start_offset]
        allEnds == [i \in 1..Len(chunks) |-> Plus(chunks[i].start_offset, chunks[i].total_byte_size)]
        rowGroupsStart == IF Len(chunks) > 0 THEN MathMin(allOffsets) ELSE MAGIC_SIZE
        rowGroupsEnd == IF Len(chunks) > 0 THEN MathMax(allEnds)
                        ELSE fd.filesize - metadataSize - FOOTER_SIZE
    IN  << Segment(<<"header", "_", "magic">>, <<"MAGIC">>, 0, MAGIC_SIZE),
           Segment(<<"rowgroups">>, <<"ROWGROUPS">>, rowGroupsStart, rowGroupsEnd),
           Segment(<<"metadata">>, <<"METADATA">>, rowGroupsEnd, fd.filesize - FOOTER_SIZE),
           Segment(<<"footer">>, <<"FOOTER">>, fd.filesize - FOOTER_SIZE, fd.filesize - MAGIC_SIZE),
           Segment(<<"footer", "_", "magic">>, <<"MAGIC">>, fd.filesize - MAGIC_SIZE, fd.filesize) >>

\* variant that takes the range of the row group's first chunk
buildRowGroupSegments_firstChunk(fd) ==
    LET rgs == RowGroupsOf(fd)
        OfRowGroup(index) ==
            LET rowGroupChunks == _getChunksForRowGroup(fd, index)
                chunkOffsets == [i \in 1..Len(rowGroupChunks) |-> rowGroupChunks[i].start_offset]
                chunkEnds == [i \in 1..Len(rowGroupChunks) |->
                                 Plus(rowGroupChunks[i].start_offset, rowGroupChunks[i].total_byte_size)]
            IN  IF Len(rowGroupChunks) = 0 THEN <<>>
                ELSE << [Segment(<<"rowgroup", "_">> \o NumStr(index), <<"RG">> \o NumStr(index),
                                 chunkOffsets[1], chunkEnds[1])
                            EXCEPT !.rowGroupIndex = index, !.metadata = <<rgs[index + 1]>>] >>
    IN  Flatten([r \in 1..Len(rgs) |-> OfRowGroup(r - 1)])

\* variant that takes the first chunk's start and the last chunk's end
buildRowGroupSegments_fileOrder(fd) ==
    LET rgs == RowGroupsOf(fd)
        OfRowGroup(index) ==
            LET rowGroupChunks == _getChunksForRowGroup(fd, index)
                chunkOffsets == [i \in 1..Len(rowGroupChunks) |-> rowGroupChunks[i].start_offset]
                chunkEnds == [i \in 1..Len(rowGroupChunks) |->
                                 Plus(rowGroupChunks[i].start_offset, rowGroupChunks[i].total_byte_size)]
            IN  IF Len(rowGroupChunks) = 0 THEN <<>>
                ELSE << [Segment(<<"rowgroup", "_">> \o NumStr(index), <<"RG">> \o NumStr(index),
                                 chunkOffsets[1], chunkEnds[Len(chunkEnds)])
                            EXCEPT !.rowGroupIndex = index, !.metadata = <<rgs[index + 1]>>] >>
    IN  Flatten([r \in 1..Len(rgs) |-> OfRowGroup(r - 1)])

buildRowGroupSegments(fd) ==
    LET rgs == RowGroupsOf(fd)
        OfRowGroup(index) ==
            LET rowGroupChunks == _getChunksForRowGroup(fd, index)
                chunkOffsets == [i \in 1..Len(rowGroupChunks) |-> rowGroupChunks[i].start_offset]
                chunkEnds == [i \in 1..Len(rowGroupChunks) |->
                                 Plus(rowGroupChunks[i].start_offset, rowGroupChunks[i].total_byte_size)]
            IN  IF Len(rowGroupChunks) = 0 THEN <<>>
                ELSE << [Segment(<<"rowgroup", "_">> \o NumStr(index), <<"RG">> \o NumStr(index),
                                 MathMin(chunkOffsets), MathMax(chunkEnds))
                            EXCEPT !.rowGroupIndex = index, !.metadata = <<rgs[index + 1]>>] >>
    IN  Flatten([r \in 1..Len(rgs) |-> OfRowGroup(r - 1)])

buildColumnChunkSegments(fd, rowGroupIndex) ==
    LET rowGroupChunks == _getChunksForRowGroup(fd, rowGroupIndex)
        OfChunk(chunkIndex) ==
            LET chunk == rowGroupChunks[chunkIndex + 1]
                columnPath == chunk.path_in_schema
                chunkSize == OrNum(chunk.total_byte_size, 0)
                chunkStart == OrNum(chunk.start_offset, 0)
            IN  [Segment(<<"chunk", "_">> \o NumStr(rowGroupIndex) \o US \o NumStr(chunkIndex),
                         columnPath, chunkStart, chunkStart + chunkSize)
                    EXCEPT !.rowGroupIndex = rowGroupIndex, !.chunkIndex = chunkIndex,
                           !.columnPath = <<columnPath>>, !.physicalMetadata = <<chunk>>,
                           !.logicalMetadata = _findColumnMetadata(fd, rowGroupIndex, columnPath)]
    IN  SortByStart([i \in 1..Len(rowGroupChunks) |-> OfChunk(i - 1)])

buildPageSegments(fd, rowGroupIndex, chunkIndex) ==
    LET chunkOpt == _getChunkData(fd, rowGroupIndex, chunkIndex)
        rc == NumStr(rowGroupIndex) \o US \o NumStr(chunkIndex)
        PageEnd(page) == Plus(page.start_offset,
                              OrNum(page.header_size, 0) + OrNum(page.compressed_page_size, 0))
        PageSeg(id, name, page, pageIndex) ==
            [Segment(id, name, page.start_offset, PageEnd(page))
                EXCEPT !.rowGroupIndex = rowGroupIndex, !.chunkIndex = chunkIndex,
                       !.pageIndex = pageIndex, !.metadata = <<page>>]
    IN  IF chunkOpt = <<>> THEN <<>>
        ELSE LET chunk == chunkOpt[1]
                 dict == IF chunk.dictionary_page = <<>> THEN <<>>
                         ELSE << PageSeg(<<"page", "_", "dict", "_">> \o rc, <<"DICT">>,
                                         chunk.dictionary_page[1], 0) >>
                 data == IF chunk.data_pages = <<>> THEN <<>>
                         ELSE [i \in 1..Len(chunk.data_pages[1]) |->
                                  PageSeg(<<"page", "_", "data", "_">> \o rc \o US \o NumStr(i - 1),
                                          <<"DATA">> \o NumStr(i - 1), chunk.data_pages[1][i], i - 1)]
                 index == IF chunk.index_pages = <<>> THEN <<>>
                          ELSE [i \in 1..Len(chunk.index_pages[1]) |->
                                   PageSeg(<<"page", "_", "index", "_">> \o rc \o US \o NumStr(i - 1),
                                           <<"IDX">> \o NumStr(i - 1), chunk.index_pages[1][i], i - 1)]
             IN  dict \o data \o index

buildMetadataStructureSegments(fd) ==
    LET metadata == Inner(fd)
        rgs == RowGroupsOf(fd)
        offset0 == OrNum(fd.metadata.start_offset, 0)
        hasSchema == metadata.schema_root # <<>>
        schemaStart == IF hasSchema THEN OrNum(metadata.schema_root[1].start_offset, offset0) ELSE offset0
        schemaLength == IF hasSchema THEN _calculateSchemaLength(metadata.schema_root[1]) ELSE 0
        schema == IF hasSchema
                  THEN << [Segment(<<"schema", "_", "root">>, <<"SCHEMA">>,
                                   schemaStart, Plus(schemaStart, schemaLength))
                              EXCEPT !.metadata = <<metadata.schema_root[1]>>] >>
                  ELSE <<>>
        offset1 == IF hasSchema THEN Plus(schemaStart, schemaLength) ELSE offset0
        totalRowGroupMetadataSize == SumSeq([i \in 1..Len(rgs) |-> OrNum(rgs[i].byte_length, 200)])
        rowGroups == IF Len(rgs) > 0
                     THEN << [Segment(<<"row", "_", "groups", "_", "metadata">>, <<"ROW GROUP METADATA">>,
                                      offset1, Plus(offset1, totalRowGroupMetadataSize))
                                 EXCEPT !.metadata = <<[row_groups |-> rgs, num_row_groups |-> Len(rgs)]>>] >>
                     ELSE <<>>
        offset2 == IF Len(rgs) > 0 THEN Plus(offset1, totalRowGroupMetadataSize) ELSE offset1
        columnIndicesInfo == _extractColumnIndicesInfo(fd)
        totalIndicesSize == SumSeq([i \in 1..Len(columnIndicesInfo) |-> columnIndicesInfo[i].size])
        indices == IF Len(columnIndicesInfo) > 0
                   THEN << [Segment(<<"column", "_", "indices">>, <<"INDICES">>,
                                    offset2, Plus(offset2, totalIndicesSize))
                               EXCEPT !.metadata = <<[indices_count |-> Len(columnIndicesInfo),
                                                      total_size |-> totalIndicesSize]>>] >>
                   ELSE <<>>
        offset3 == IF Len(columnIndicesInfo) > 0 THEN Plus(offset2, totalIndicesSize) ELSE offset2
        kvs == IF metadata.key_value_metadata = <<>> THEN <<>> ELSE metadata.key_value_metadata[1]
        totalKvSize == SumSeq([i \in 1..Len(kvs) |-> OrNum(kvs[i].byte_length, 0)])
        keyValue == IF Len(kvs) > 0
                    THEN << [Segment(<<"key", "_", "value", "_", "metadata">>, <<"KEY-VALUE METADATA">>,
                                     offset3, Plus(offset3, totalKvSize))
                                EXCEPT !.metadata = <<[entries |-> kvs, num_entries |-> Len(kvs)]>>] >>
                    ELSE <<>>
    IN  SortByStart(schema \o rowGroups \o indices \o keyValue)

RECURSIVE PrefixSums(_, _)
\* running offsets: <<base, base + xs[1], base + xs[1] + xs[2], ...>> without the last
PrefixSums(xs, base) == IF xs = <<>> THEN <<>>
                        ELSE <<base>> \o PrefixSums(Tail(xs), Plus(base, Head(xs)))

buildRowGroupMetadataSegments(fd) ==
    IF Inner(fd).row_groups = <<>> THEN <<>>
    ELSE LET rgs == RowGroupsOf(fd)
             sizes == [i \in 1..Len(rgs) |-> OrNum(rgs[i].byte_length, 200)]
             offsets == PrefixSums(sizes, OrNum(fd.metadata.start_offset, 0) + 600)
             segments == [i \in 1..Len(rgs) |->
                 [Segment(<<"rowgroup", "_", "meta", "_">> \o NumStr(i - 1),
                          <<"ROW GROUP ">> \o NumStr(i - 1), offsets[i], Plus(offsets[i], sizes[i]))
                     EXCEPT !.metadata = <<rgs[i]>>, !.rowGroupIndex = i - 1]]
         IN  << [k |-> <<"row", "_", "groups", "_", "metadata">>, v |-> segments] >>

buildColumnIndexSegments(fd) ==
    LET indicesInfo == _extractColumnIndicesInfo(fd)
        segments == [i \in 1..Len(indicesInfo) |->
            LET info == indicesInfo[i]
            IN  [Segment(info.type \o US \o NumStr(info.row_group) \o US \o info.path,
                         info.path \o <<" (RG">> \o NumStr(info.row_group) \o <<") ">> \o info.type,
                         info.offset, Plus(info.offset, info.size))
                    EXCEPT !.metadata = <<[column_path |-> info.path,
                                           row_group_index |-> info.row_group,
                                           index_type |-> info.type]>>]]
    IN  IF Len(indicesInfo) = 0 THEN <<>>
        ELSE << [k |-> <<"column", "_", "indices">>, v |-> SortByStart(segments)] >>

\* entry.key.replace(...) is a TypeError when the entry has no key
buildKeyValueMetadataSegmentsThrows(fd) ==
    /\ Inner(fd).key_value_metadata # <<>>
    /\ \E i \in 1..Len(Inner(fd).key_value_metadata[1]) :
          ~HasField(Inner(fd).key_value_metadata[1][i], "key")

buildKeyValueMetadataSegments(fd) ==
    IF Inner(fd).key_value_metadata = <<>> THEN <<>>
    ELSE LET kvs == Inner(fd).key_value_metadata[1]
             segments == [i \in 1..Len(kvs) |->
                 LET entry == kvs[i]
                     start == OrNum(entry.start_offset, 0)
                 IN  [Segment(<<"kv", "_">> \o NumStr(i - 1) \o US \o Sanitize(entry.key),
                              entry.key, start, start + OrNum(entry.byte_length, 0))
                         EXCEPT !.metadata = <<[key |-> entry.key, byte_length |-> entry.byte_length,
                                                start_offset |-> entry.start_offset,
                                                entry_index |-> i - 1]>>]]
         IN  << [k |-> <<"key", "_", "value", "_", "metadata">>, v |-> SortByStart(segments)] >>

buildColumnChunkMetadataSegments(fd) ==
    LET rgs == RowGroupsOf(fd)
        OfRowGroup(rgIndex) ==
            LET rowGroup == rgs[rgIndex + 1]
                entries == IF rowGroup.column_chunks = <<>> THEN <<>> ELSE rowGroup.column_chunks[1]
                sizes == [i \in 1..Len(entries) |->
                             OrNum(entries[i].v.total_compressed_size,
                                   OrNum(entries[i].v.total_uncompressed_size, 100))]
                offsets == PrefixSums(sizes, 0)
            IN  [i \in 1..Len(entries) |->
                    [Segment(<<"column", "_", "meta", "_">> \o NumStr(rgIndex) \o US \o NumStr(i - 1),
                             entries[i].k, offsets[i], offsets[i] + sizes[i])
                        EXCEPT !.metadata = <<entries[i].v>>, !.rowGroupIndex = rgIndex,
                               !.chunkIndex = i - 1, !.columnPath = <<entries[i].k>>]]
    IN  [r \in 1..Len(rgs) |->
            [k |-> <<"rowgroup", "_", "meta", "_">> \o NumStr(r - 1), v |-> OfRowGroup(r - 1)]]

buildSchemaElementSegments(schemaGroup, parentId) ==
    IF schemaGroup.children = <<>> THEN <<>>
    ELSE LET children == schemaGroup.children[1]
         IN  SortByStart([i \in 1..Len(children) |->
                 LET child == children[i].v
                     childStart == OrNum(child.start_offset, 0)
                     childLength == IF child.element_type = "group"
                                    THEN _calculateSchemaLength(child)
                                    ELSE OrNum(child.byte_length, 50)
                 IN  [Segment(parentId \o US \o children[i].k, children[i].k,
                              childStart, Plus(childStart, childLength))
                         EXCEPT !.metadata = <<child>>]])

RECURSIVE _buildAllNestedSchemaElements(_, _)
\* the assignments cache[childId] = ... the recursion performs, in order
_buildAllNestedSchemaElements(schemaElement, parentId) ==
    IF schemaElement.children = <<>> THEN <<>>
    ELSE LET children == schemaElement.children[1]
         IN  Flatten([i \in 1..Len(children) |->
                 LET child == children[i].v
                     childId == parentId \o US \o children[i].k
                 IN  IF child.element_type = "group" /\ child.children # <<>>
                     THEN << [k |-> childId, v |-> buildSchemaElementSegments(child, childId)] >>
                          \o _buildAllNestedSchemaElements(child, childId)
                     ELSE <<>>])

buildAllSchemaElementSegments(fd) ==
    IF Inner(fd).schema_root = <<>> THEN <<>>
    ELSE LET root == Inner(fd).schema_root[1]
             rootId == <<"schema", "_", "root">>
         IN  MapPutAll(<< [k |-> rootId, v |-> buildSchemaElementSegments(root, rootId)] >>,
                       _buildAllNestedSchemaElements(root, rootId))

\* the `${rowGroupIndex}_${chunkIndex}` key of cache.pages
PagesKey(rowGroupIndex, chunkIndex) == NumStr(rowGroupIndex) \o US \o NumStr(chunkIndex)

buildAll(fd) ==
    LET rgs == RowGroupsOf(fd)
        columnchunks == [r \in 1..Len(rgs) |-> [k |-> r - 1, v |-> buildColumnChunkSegments(fd, r - 1)]]
        pages == Flatten([r \in 1..Len(columnchunks) |->
                    [c \in 1..Len(columnchunks[r].v) |->
                        [k |-> PagesKey(columnchunks[r].k, c - 1),
                         v |-> buildPageSegments(fd, columnchunks[r].k, c - 1)]]])
    IN  [overview |-> buildOverviewSegments(fd),
         rowgroups |-> buildRowGroupSegments(fd),
         columnchunks |-> columnchunks,
         pages |-> pages,
         metadatastructure |-> buildMetadataStructureSegments(fd),
         schemaelements |-> buildAllSchemaElementSegments(fd),
         rowgroupelements |-> buildRowGroupMetadataSegments(fd),
         indexelements |-> buildColumnIndexSegments(fd),
         keyvaluemetadata |-> buildKeyValueMetadataSegments(fd),
         columnchunkmetadata |-> buildColumnChunkMetadataSegments(fd)]

\* every segment constructed while building, bucket by bucket
AllSegments(c) ==
    c.overview \o c.metadatastructure \o MapValuesFlat(c.schemaelements)
    \o MapValuesFlat(c.rowgroupelements) \o MapValuesFlat(c.indexelements)
    \o MapValuesFlat(c.keyvaluemetadata) \o MapValuesFlat(c.columnchunkmetadata)
    \o c.rowgroups \o MapValuesFlat(c.columnchunks) \o MapValuesFlat(c.pages)

\* buildAll throws when a ParquetSegment constructor rejects its arguments.
\* An overwritten schemaelements bucket was constructed (and validated) too.
BuildThrows(fd) ==
    buildKeyValueMetadataSegmentsThrows(fd) \/
    LET c == buildAll(fd)
        overwritten == IF Inner(fd).schema_root = <<>> THEN <<>>
                       ELSE LET es == _buildAllNestedSchemaElements(Inner(fd).schema_root[1],
                                                                    <<"schema", "_", "root">>)
                            IN  Flatten([i \in 1..Len(es) |-> es[i].v])
    IN  \E s \in Range(AllSegments(c)) \cup Range(overwritten) : ~Validate(s)

OrEmpty(opt) == IF opt = <<>> THEN <<>> ELSE opt[1]

getSegmentsForLevel(hierarchyCache, level, parentId) ==
    CASE level = "overview" -> hierarchyCache.overview
      [] level = "metadatastructure" -> hierarchyCache.metadatastructure
      [] level = "schemaelements" ->
            IF parentId # <<>> THEN OrEmpty(MapGet(hierarchyCache.schemaelements, parentId)) ELSE <<>>
      [] level = "rowgroupelements" ->
            IF parentId # <<>> THEN OrEmpty(MapGet(hierarchyCache.rowgroupelements, parentId)) ELSE <<>>
      [] level = "indexelements" ->
            IF parentId # <<>> THEN OrEmpty(MapGet(hierarchyCache.indexelements, parentId)) ELSE <<>>
      [] level = "keyvaluemetadata" ->
            IF parentId # <<>> THEN OrEmpty(MapGet(hierarchyCache.keyvaluemetadata, parentId)) ELSE <<>>
      [] level = "rowgroups" -> hierarchyCache.rowgroups
      [] level = "columnchunks" ->
            IF parentId # <<>> /\ StartsWith(parentId, <<"rowgroup", "_">>) /\ ~IncludesMeta(parentId)
            THEN OrEmpty(MapGet(hierarchyCache.columnchunks, parseInt(Part(Split(parentId), 1))))
            ELSE <<>>
      [] level = "columnchunkmetadata" ->
            IF parentId # <<>> /\ StartsWith(parentId, <<"rowgroup", "_", "meta", "_">>)
            THEN OrEmpty(MapGet(hierarchyCache.columnchunkmetadata, parentId))
            ELSE <<>>
      [] level = "pages" ->
            IF parentId # <<>> /\ IncludesChunkUS(parentId)
            THEN LET parts == Split(parentId)
                     rowGroupIndex == parseInt(Part(parts, 1))
                     chunkIndex == parseInt(Part(parts, 2))
                 IN  IF IsNum(rowGroupIndex) /\ IsNum(chunkIndex)
                     THEN OrEmpty(MapGet(hierarchyCache.pages, PagesKey(rowGroupIndex, chunkIndex)))
                     ELSE <<>>
            ELSE <<>>
      [] OTHER -> <<>>

\* Array.prototype.find on the id: the first match, as an option
FindIn(segs, segmentId) ==
    IF \E i \in 1..Len(segs) : segs[i].id = segmentId
    THEN <<segs[CHOOSE i \in 1..Len(segs) :
                  segs[i].id = segmentId /\ \A j \in 1..(i - 1) : segs[j].id # segmentId]>>
    ELSE <<>>

\* the buckets findSegment scans, in its order
FindSegmentScan(hierarchyCache) ==
    hierarchyCache.overview \o hierarchyCache.metadatastructure
    \o MapValuesFlat(hierarchyCache.schemaelements)
    \o MapValuesFlat(hierarchyCache.rowgroupelements)
    \o MapValuesFlat(hierarchyCache.indexelements)
    \o MapValuesFlat(hierarchyCache.keyvaluemetadata)
    \o hierarchyCache.rowgroups
    \o MapValuesFlat(hierarchyCache.columnchunks)
    \o MapValuesFlat(hierarchyCache.pages)

findSegment(hierarchyCache, segmentId) == FindIn(FindSegmentScan(hierarchyCache), segmentId)

-----------------------------------------------------------------------------
(* Input payloads (the JSON document of the external analysis tool) *)

MaxChunks == 3

MaxRowGroups == 3

Page(start, header, compressed) ==
    [start_offset |-> start, header_size |-> header, compressed_page_size |-> compressed]

ColumnNames == << <<"a">>, <<"b">> >>

\* physical column chunk number i (0-based position in column_chunks).  oid is
\* the identity of the JavaScript object, so that two chunks with equal
\* field values remain distinguishable.
Chunk(i, start, size, withPages) ==
    [oid |-> i, path_in_schema |-> ColumnNames[(i % 2) + 1],
     start_offset |-> start, total_byte_size |-> size,
     dictionary_page |-> IF withPages /\ i % 2 = 0 THEN <<Page(start, 2, 8)>> ELSE <<>>,
     data_pages |-> IF withPages
                    THEN << IF i % 2 = 0 THEN <<Page(start + 10, 5, 85)>>
                            ELSE <<Page(start, 5, 45), Page(start + 50, 5, 45)>> >>
                    ELSE <<>>,
     index_pages |-> <<>>]

\* "unlocated": ascending, but the first chunk record has no start_offset
ChunkLayouts == {"ascending", "descending", "gapped", "unlocated"}

ChunkStart(i, n, chunkLayout) ==
    CASE chunkLayout \in {"ascending", "unlocated"} -> MAGIC_SIZE + 100 * i
      [] chunkLayout = "descending" -> MAGIC_SIZE + 100 * (n - 1 - i)
      [] chunkLayout = "gapped" -> MAGIC_SIZE + 150 * i

Chunks(n, chunkLayout, withPages) ==
    [i \in 1..n |->
        LET chunk == Chunk(i - 1, ChunkStart(i - 1, n, chunkLayout), 100, withPages)
        IN  IF chunkLayout = "unlocated" /\ i = 1 THEN [chunk EXCEPT !.start_offset = Undef]
            ELSE chunk]

ColumnMeta(indexed) ==
    [total_compressed_size |-> 100, total_uncompressed_size |-> 140,
     column_index_offset |-> IF indexed THEN 700 ELSE 0,
     column_index_length |-> IF indexed THEN 40 ELSE 0]

RowGroupMetas == {"none", "plain", "indexed"}

RowGroup(r, rowGroupMeta) ==
    [row_count |-> 10, byte_length |-> IF r = 0 THEN 120 ELSE 0,
     column_chunks |->
        IF rowGroupMeta = "none" THEN <<>>
        ELSE << << [k |-> <<"a">>, v |-> ColumnMeta(rowGroupMeta = "indexed")],
                   [k |-> <<"b">>, v |-> ColumnMeta(FALSE)] >> >>]

Column(start, length) ==
    [element_type |-> "column", start_offset |-> start, byte_length |-> length, children |-> <<>>]

Group(start, children) ==
    [element_type |-> "group", start_offset |-> start, byte_length |-> 0, children |-> <<children>>]

\* schema_root trees: absent, flat, nested, and nested with a sibling whose
\* name contains the separator
Schemas ==
    << <<>>,
       << Group(0, << [k |-> <<"a">>, v |-> Column(0, 30)],
                      [k |-> <<"b">>, v |-> Column(30, 0)] >>) >>,
       << Group(0, << [k |-> <<"a">>, v |-> Group(0, << [k |-> <<"b">>, v |-> Column(0, 30)],
                                                        [k |-> <<"a">>, v |-> Column(30, 20)] >>)],
                      [k |-> <<"b">>, v |-> Column(50, 10)] >>) >>,
       << Group(0, << [k |-> <<"a">>, v |-> Group(0, << [k |-> <<"b">>, v |-> Column(0, 30)] >>)],
                      [k |-> <<"a", "_", "b">>, v |-> Column(30, 10)] >>) >> >>

KeyValue(key, start, length) == [key |-> key, start_offset |-> start, byte_length |-> length]

\* key_value_metadata: absent, empty, two entries, an entry lacking
\* start_offset and byte_length, and an entry lacking key
KeyValues ==
    << <<>>,
       << <<>> >>,
       << << KeyValue(<<"a", ".", "b">>, 900, 20), KeyValue(<<"a", "_", "b">>, 880, 20) >> >>,
       << << KeyValue(<<"a">>, Undef, Undef) >> >>,
       << << [start_offset |-> 900, byte_length |-> 20] >> >> >>

FileSizes == {10, 112, 1000}

\* metadata.total_byte_size: absent, zero or positive
MetadataSizes == {Undef, 0, 100}

\* rowGroups = -1 stands for a payload without metadata.row_groups
Payload(n, rowGroups, chunkLayout, withPages, rowGroupMeta, schema, kv, filesize) ==
    [source |-> "test.parquet",
     filesize |-> filesize,
     column_chunks |-> Chunks(n, chunkLayout, withPages),
     metadata |->
        [total_byte_size |-> 100, start_offset |-> 0, json_length |-> 2,
         metadata |->
            [schema_root |-> schema,
             row_groups |-> IF rowGroups < 0 THEN <<>>
                            ELSE << [r \in 1..rowGroups |-> RowGroup(r - 1, rowGroupMeta)] >>,
             key_value_metadata |-> kv]]]

WithMetadataSize(fd, m) == [fd EXCEPT !.metadata.total_byte_size = m]

\* every combination of the payload's parts with a metadata size of 100, and
\* the other metadata sizes over the chunk counts, row-group counts, schemas
\* and file sizes
PayloadChoices ==
    { t \in (0..MaxChunks) \X (-1..MaxRowGroups) \X ChunkLayouts \X BOOLEAN \X RowGroupMetas
               \X (1..Len(Schemas)) \X (1..Len(KeyValues)) \X FileSizes \X MetadataSizes :
        t[9] # 100 => (t[3] = "ascending" /\ ~t[4] /\ t[5] = "none" /\ t[7] = 1) }

BuildPayloads ==
    { WithMetadataSize(Payload(t[1], t[2], t[3], t[4], t[5], Schemas[t[6]], KeyValues[t[7]], t[8]),
                       t[9]) : t \in PayloadChoices }

NoCache == [overview |-> <<>>, rowgroups |-> <<>>, columnchunks |-> <<>>, pages |-> <<>>,
            metadatastructure |-> <<>>, schemaelements |-> <<>>, rowgroupelements |-> <<>>,
            indexelements |-> <<>>, keyvaluemetadata |-> <<>>, columnchunkmetadata |-> <<>>]

-----------------------------------------------------------------------------
(* Builder specification: load a payload, build the cache, look ids up *)

LayoutIdle == lsegs = <<>> /\ lwidth = 0 /\ lout = <<>> /\ lpc = "idle"

EmptyMap == [i \in {} |-> <<>>]

NoEvent == [op |-> "none", levelIndex |-> -1, segment |-> <<>>,
            levels |-> <<>>, selectedSegments |-> EmptyMap, selectionPath |-> <<>>,
            removed |-> <<>>, added |-> <<>>, n |-> 0]

NoCall == [op |-> "none", evicted |-> <<>>, recent |-> <<>>, reads |-> 0]

UrlIdle ==
    /\ urlSize = Undef
    /\ urlPosition = 0
    /\ urlCache = <<>>
    /\ pending = <<>>
    /\ recent = <<>>
    /\ ulast = NoCall
    /\ upc = "idle"

NavIdle ==
    /\ levels = <<>>
    /\ selectedSegments = EmptyMap
    /\ selectionPath = <<>>
    /\ npc = "idle"
    /\ last = NoEvent
    /\ dom = <<>>

InitBuild ==
    /\ fileData \in BuildPayloads
    /\ cache = NoCache
    /\ bpc = "loaded"
    /\ query = <<>>
    /\ found = <<>>
    /\ LayoutIdle
    /\ NavIdle
    /\ UrlIdle

\* new FileStructureAnalyzer(data): this.cache = SegmentHierarchyBuilder.buildAll(data)
BuildAll ==
    /\ bpc = "loaded"
    /\ IF BuildThrows(fileData)
       THEN bpc' = "threw" /\ cache' = cache
       ELSE bpc' = "built" /\ cache' = buildAll(fileData)
    /\ UNCHANGED <<fileData, query, found, lvars, nvars, uvars>>

\* FileStructureAnalyzer.findSegment(segmentId), for an id some builder
\* returned or an id no builder writes
FindSegment ==
    /\ bpc = "built"
    /\ \E id \in {s.id : s \in Range(AllSegments(cache))} \cup {<<"nosuch">>} :
          /\ query' = id
          /\ found' = findSegment(cache, id)
    /\ bpc' = "queried"
    /\ UNCHANGED <<fileData, cache, lvars, nvars, uvars>>

\* variant in which building reverses the payload's column_chunks in place
PayloadAfterBuild_reversed(fd) ==
    [fd EXCEPT !.column_chunks = [i \in 1..Len(fd.column_chunks) |->
                                     fd.column_chunks[Len(fd.column_chunks) + 1 - i]]]

\* the payload object once buildAll has returned.  The builders only read
\* fileData: every sort they make is on a segments array they created, and
\* SegmentHierarchyBuilder has static methods only, no fields.
PayloadAfterBuild(fd) == fd

\* a second buildAll on the same payload object (the same data loaded again)
Rebuild ==
    /\ bpc = "built"
    /\ cache' = buildAll(PayloadAfterBuild(fileData))
    /\ bpc' = "rebuilt"
    /\ UNCHANGED <<fileData, query, found, lvars, nvars, uvars>>

NextBuild == BuildAll \/ FindSegment \/ Rebuild

SpecBuild == InitBuild /\ [][NextBuild]_vars

-----------------------------------------------------------------------------
(* Exact arithmetic for pixel geometry.  A JavaScript number is modelled as  *)
(* a rational <<numerator, denominator>> in lowest terms with a positive     *)
(* denominator; <<0, 0>> is NaN.  IEEE rounding is not modelled: the model   *)
(* computes the value the floating-point result approximates.  No division   *)
(* of the calculator can yield an infinity (a zero divisor always comes with *)
(* a zero dividend), so none is represented.                                 *)

Abs(n) == IF n < 0 THEN -n ELSE n

RECURSIVE GCD(_, _)
GCD(a, b) == IF b = 0 THEN a ELSE GCD(b, a % b)

RNaN == <<0, 0>>

RIsNaN(a) == a[2] = 0

Rat(n, d) == IF d = 0 THEN RNaN
             ELSE LET g == GCD(Abs(n), Abs(d))
                      sgn == IF d < 0 THEN -1 ELSE 1
                  IN  <<(sgn * n) \div g, (sgn * d) \div g>>

RInt(n) == <<n, 1>>

\* sums are taken over the least common denominator and products are
\* cancelled crosswise first, which keeps the intermediate integers small
RAdd(a, b) == IF RIsNaN(a) \/ RIsNaN(b) THEN RNaN
              ELSE LET g == GCD(a[2], b[2])
                   IN  Rat(a[1] * (b[2] \div g) + b[1] * (a[2] \div g), (a[2] \div g) * b[2])

RSub(a, b) == IF RIsNaN(a) \/ RIsNaN(b) THEN RNaN ELSE RAdd(a, <<-b[1], b[2]>>)

RMul(a, b) == IF RIsNaN(a) \/ RIsNaN(b) THEN RNaN
              ELSE LET p == Rat(a[1], b[2])
                       q == Rat(b[1], a[2])
                   IN  Rat(p[1] * q[1], p[2] * q[2])

RDiv(a, b) == IF RIsNaN(a) \/ RIsNaN(b) THEN RNaN ELSE RMul(a, Rat(b[2], b[1]))

\* a < b; false when either side is NaN
RLt(a, b) == /\ ~RIsNaN(a)
             /\ ~RIsNaN(b)
             /\ LET g == GCD(a[2], b[2])
                IN  a[1] * (b[2] \div g) < b[1] * (a[2] \div g)

RGt(a, b) == RLt(b, a)

\* Math.min(a, b)
RMin(a, b) == IF RIsNaN(a) \/ RIsNaN(b) THEN RNaN ELSE IF RLt(b, a) THEN b ELSE a

RECURSIVE RSum(_)
\* xs.reduce((sum, x) => sum + x, 0)
RSum(xs) == IF xs = <<>> THEN RInt(0) ELSE RAdd(RSum(SubSeq(xs, 1, Len(xs) - 1)), xs[Len(xs)])

\* Math.log10(size) for the sizes the layout inputs use (powers of ten)
Log10(size) == CASE size = 1 -> 0
                 [] size = 10 -> 1
                 [] size = 100 -> 2
                 [] size = 1000 -> 3
                 [] size = 10000 -> 4

ISqrt(n) == CHOOSE k \in 0..n : k * k = n

\* Math.pow(x, 1 / 2) for a rational x that is the square of a rational
RSqrt(x) == Rat(ISqrt(x[1]), ISqrt(x[2]))

-----------------------------------------------------------------------------
(* VisualizationConfig.LAYOUT *)

MIN_SEGMENT_WIDTH == 3

MAX_MIN_SEGMENT_WIDTH == 25

LOG_SCALE_FACTOR == 2

STARTING_BASELINE == 5

-----------------------------------------------------------------------------
(* SegmentLayoutCalculator *)

\* Math.pow(logPosition, 1 / config.LOG_SCALE_FACTOR) with LOG_SCALE_FACTOR = 2
ScaledPosition(logPosition) == RSqrt(logPosition)

calculateLogarithmicMinWidths(segments, totalSize, containerWidth) ==
    LET n == Len(segments)
        startingBaseline == OrNum(STARTING_BASELINE, 5)
        adjustedBaseline == RMin(RInt(startingBaseline), Rat(containerWidth, n))
        sizes == [i \in 1..n |-> Max2(1, SizeOf(segments[i]))]
        minSize == MathMin(sizes)
        maxSize == MathMax(sizes)
        logRange == Log10(maxSize) - Log10(minSize)
        logarithmicWidths == [i \in 1..n |->
            LET logPosition == Rat(Log10(sizes[i]) - Log10(minSize), logRange)
            IN  RAdd(adjustedBaseline,
                     RMul(RSub(RInt(MAX_MIN_SEGMENT_WIDTH), adjustedBaseline),
                          ScaledPosition(logPosition)))]
        totalLogarithmicWidth == RSum(logarithmicWidths)
    IN  IF RLt(adjustedBaseline, RInt(MIN_SEGMENT_WIDTH))
        THEN [i \in 1..n |-> Rat(containerWidth, n)]
        ELSE IF minSize = maxSize
        THEN [i \in 1..n |-> adjustedBaseline]
        ELSE IF RGt(totalLogarithmicWidth, RInt(containerWidth))
        THEN [i \in 1..n |-> RMul(logarithmicWidths[i],
                                  RDiv(RInt(containerWidth), totalLogarithmicWidth))]
        ELSE logarithmicWidths

RECURSIVE Lefts(_, _)
\* calculateSegmentPositions: the running left edge before each segment
Lefts(widths, currentLeft) ==
    IF widths = <<>> THEN <<>>
    ELSE <<currentLeft>> \o Lefts(Tail(widths), RAdd(currentLeft, Head(widths)))

\* lines 28-36: one record per segment, nothing decided yet
InitialSegmentData(segments, totalSize, containerWidth, minWidths) ==
    [i \in 1..Len(segments) |->
        [segment |-> segments[i],
         naturalWidthPercent |-> RMul(Rat(SizeOf(segments[i]), totalSize), RInt(100)),
         naturalWidthPixels |-> RMul(Rat(SizeOf(segments[i]), totalSize), RInt(containerWidth)),
         finalWidthPercent |-> RInt(0),
         finalWidthPixels |-> RInt(0),
         isExpanded |-> FALSE,
         minWidth |-> minWidths[i]]]

\* lines 39-50: a segment narrower than its minimum width is expanded to it
MarkExpanded(segmentData, containerWidth) ==
    [i \in 1..Len(segmentData) |->
        LET data == segmentData[i]
            segmentMinWidthPercent == RMul(RDiv(data.minWidth, RInt(containerWidth)), RInt(100))
        IN  IF RLt(data.naturalWidthPixels, data.minWidth)
            THEN [data EXCEPT !.isExpanded = TRUE,
                              !.finalWidthPercent = segmentMinWidthPercent,
                              !.finalWidthPixels = data.minWidth]
            ELSE [data EXCEPT !.finalWidthPercent = data.naturalWidthPercent,
                              !.finalWidthPixels = data.naturalWidthPixels]]

\* sum of f over the records that satisfy pick (filter, then reduce from 0)
SumOver(segmentData, f(_), pick(_)) ==
    RSum([i \in 1..Len(segmentData) |->
             IF pick(segmentData[i]) THEN f(segmentData[i]) ELSE RInt(0)])

\* variant whose redistribution step rescales the expanded segments too
RedistributeWidths_rescaleAll(segmentData, containerWidth) ==
    LET Expanded(d) == d.isExpanded
        NotExpanded(d) == ~d.isExpanded
        Extra(d) == RSub(d.finalWidthPercent, d.naturalWidthPercent)
        Final(d) == d.finalWidthPercent
        Natural(d) == d.naturalWidthPercent
        extraSpaceUsed == SumOver(segmentData, Extra, Expanded)
        availableSpace == RSub(RInt(100), SumOver(segmentData, Final, Expanded))
        naturalSpaceForNonExpanded == SumOver(segmentData, Natural, NotExpanded)
        redistribute == RGt(extraSpaceUsed, RInt(0)) /\ RGt(naturalSpaceForNonExpanded, RInt(0))
        scaleFactor == RDiv(availableSpace, naturalSpaceForNonExpanded)
    IN  [i \in 1..Len(segmentData) |->
            LET data == segmentData[i]
                scaled == RMul(data.naturalWidthPercent, scaleFactor)
            IN  IF redistribute
                THEN [data EXCEPT !.finalWidthPercent = scaled,
                                  !.finalWidthPixels = RMul(RDiv(scaled, RInt(100)),
                                                            RInt(containerWidth))]
                ELSE data]

\* lines 52-75: the space the expanded segments took beyond their natural
\* share is taken from the others in proportion
RedistributeWidths(segmentData, containerWidth) ==
    LET Expanded(d) == d.isExpanded
        NotExpanded(d) == ~d.isExpanded
        Extra(d) == RSub(d.finalWidthPercent, d.naturalWidthPercent)
        Final(d) == d.finalWidthPercent
        Natural(d) == d.naturalWidthPercent
        extraSpaceUsed == SumOver(segmentData, Extra, Expanded)
        availableSpace == RSub(RInt(100), SumOver(segmentData, Final, Expanded))
        naturalSpaceForNonExpanded == SumOver(segmentData, Natural, NotExpanded)
        redistribute == RGt(extraSpaceUsed, RInt(0)) /\ RGt(naturalSpaceForNonExpanded, RInt(0))
        scaleFactor == RDiv(availableSpace, naturalSpaceForNonExpanded)
    IN  [i \in 1..Len(segmentData) |->
            LET data == segmentData[i]
                scaled == RMul(data.naturalWidthPercent, scaleFactor)
            IN  IF redistribute /\ ~data.isExpanded
                THEN [data EXCEPT !.finalWidthPercent = scaled,
                                  !.finalWidthPixels = RMul(RDiv(scaled, RInt(100)),
                                                            RInt(containerWidth))]
                ELSE data]

calculateSegmentPositions(segmentData) ==
    LET lefts == Lefts([i \in 1..Len(segmentData) |-> segmentData[i].finalWidthPixels], RInt(0))
    IN  [i \in 1..Len(segmentData) |->
            [segment |-> segmentData[i].segment, x |-> lefts[i],
             width |-> segmentData[i].finalWidthPixels,
             widthPercent |-> segmentData[i].finalWidthPercent,
             isExpanded |-> segmentData[i].isExpanded,
             naturalWidth |-> segmentData[i].naturalWidthPixels,
             minWidth |-> segmentData[i].minWidth]]

calculateSegmentWidths(segments, containerWidth) ==
    IF Len(segments) = 0 THEN <<>>
    ELSE
    LET n == Len(segments)
        minStart == MathMin([i \in 1..n |-> segments[i].start])
        maxEnd == MathMax([i \in 1..n |-> segments[i].end])
        totalSize == maxEnd - minStart
        minWidths == calculateLogarithmicMinWidths(segments, totalSize, containerWidth)
        segmentData == InitialSegmentData(segments, totalSize, containerWidth, minWidths)
    IN  calculateSegmentPositions(
            RedistributeWidths(MarkExpanded(segmentData, containerWidth), containerWidth))

LEVEL_HEIGHT == 40

LEVEL_SPACING == 32

\* computeLevelLayout(levelName, parentSegmentId, segments, levelIndex, containerWidth, config)
computeLevelLayout(levelName, parentSegmentId, segments, levelIndex, containerWidth) ==
    [x |-> RInt(0),
     y |-> RInt(levelIndex * (LEVEL_HEIGHT + LEVEL_SPACING)),
     width |-> RInt(containerWidth),
     height |-> RInt(LEVEL_HEIGHT),
     segments |-> IF Len(segments) = 0 THEN <<>>
                  ELSE calculateSegmentWidths(segments, containerWidth),
     levelName |-> levelName,
     parentSegmentId |-> parentSegmentId]

-----------------------------------------------------------------------------
(* Layout specification: pick a segment list and a width, compute the layout *)

MaxSegments == 3

\* the generated segments.  gap is the distance from the previous segment's
\* end: 0 is contiguous, 20 leaves a gap, -1 starts at the previous start (an
\* overlap).  The byte sizes are 0 and powers of ten whose logarithms make
\* every logPosition the square of a rational.
SegmentShapes ==
    { [gap |-> 0, size |-> 0], [gap |-> 0, size |-> 1], [gap |-> 0, size |-> 10],
      [gap |-> 0, size |-> 10000], [gap |-> 20, size |-> 10], [gap |-> -1, size |-> 10] }

\* container widths: empty, below 3 px per segment, below and just above the
\* sum of the floors, and desktop widths
ContainerWidths == {0, 8, 20, 55, 300, 1200}

RECURSIVE LayoutSegments(_, _, _, _)
\* the segment list described by a sequence of [gap, size] shapes
LayoutSegments(shapes, i, prevStart, prevEnd) ==
    IF i > Len(shapes) THEN <<>>
    ELSE LET start == IF shapes[i].gap < 0 THEN prevStart ELSE prevEnd + shapes[i].gap
         IN  <<Segment(<<"s">> \o NumStr(i), <<"S">>, start, start + shapes[i].size)>>
             \o LayoutSegments(shapes, i + 1, start, start + shapes[i].size)

LayoutShapes == UNION {[1..n -> SegmentShapes] : n \in 0..MaxSegments}

BuilderIdle ==
    /\ fileData = Payload(0, -1, "ascending", FALSE, "none", <<>>, <<>>, 1000)
    /\ cache = NoCache
    /\ bpc = "idle"
    /\ query = <<>>
    /\ found = <<>>

InitLayout ==
    /\ BuilderIdle
    /\ \E shapes \in LayoutShapes : lsegs = LayoutSegments(shapes, 1, 0, 0)
    /\ lwidth \in ContainerWidths
    /\ lout = <<>>
    /\ lpc = "input"
    /\ NavIdle
    /\ UrlIdle

\* SegmentLayoutCalculator.calculateSegmentWidths(segments, containerWidth, config)
CalculateSegmentWidths ==
    /\ lpc = "input"
    /\ lout' = calculateSegmentWidths(lsegs, lwidth)
    /\ lpc' = "done"
    /\ UNCHANGED <<bvars, nvars, lsegs, lwidth, uvars>>

LevelIndexes == {0, 1}

\* SegmentLayoutCalculator.computeLevelLayout(...) for the same input
ComputeLevelLayout ==
    /\ lpc = "input"
    /\ \E levelIndex \in LevelIndexes :
          lout' = computeLevelLayout("overview", <<>>, lsegs, levelIndex, lwidth)
    /\ lpc' = "level"
    /\ UNCHANGED <<bvars, nvars, lsegs, lwidth, uvars>>

NextLayout == CalculateSegmentWidths \/ ComputeLevelLayout

SpecLayout == InitLayout /\ [][NextLayout]_vars

-----------------------------------------------------------------------------
(* SvgByteVisualizer: drill-down navigation.  Level indices are 0-based as   *)
(* in the source; levels[i + 1] is the level with index i.  The operators    *)
(* return the visualizer's fields after the call, together with the levels   *)
(* the call handed to the slide-up animation (removed) and the level objects *)
(* it created (added).                                                       *)

NewLevel(levelName, parentSegmentId, segments) ==
    [name |-> levelName, parentSegmentId |-> parentSegmentId, segments |-> segments]

NavState(lv, sel, path, removed, added) ==
    [levels |-> lv, selectedSegments |-> sel, selectionPath |-> path,
     removed |-> removed, added |-> added]

\* levels.slice(0, index)
SliceTo(s, index) == SubSeq(s, 1, Min2(index, Len(s)))

\* levels.slice(index)
SliceFrom(s, index) == SubSeq(s, index + 1, Len(s))

isSegmentSelected(sel, segmentId, levelIndex) ==
    levelIndex \in DOMAIN sel /\ sel[levelIndex] = segmentId

segmentHasChildren(c, segment) ==
    /\ childLevelName(segment) # "null"
    /\ Len(getSegmentsForLevel(c, childLevelName(segment), segment.id)) > 0

\* addLevel storing no parent segment id in the level
addLevel_unlinked(st, levelName, parentSegmentId, segments) ==
    LET level == NewLevel(levelName, <<>>, segments)
    IN  [st EXCEPT !.levels = Append(st.levels, level), !.added = Append(st.added, level)]

\* addLevel(levelName, parentSegmentId, segments)
addLevel(st, levelName, parentSegmentId, segments) ==
    LET level == NewLevel(levelName, parentSegmentId, segments)
    IN  [st EXCEPT !.levels = Append(st.levels, level), !.added = Append(st.added, level)]

\* removeLevelsFrom keeping the first of the levels it should remove
removeLevelsFrom_keepFirst(st, index) ==
    IF index >= Len(st.levels) THEN st
    ELSE [st EXCEPT !.levels = SliceTo(st.levels, index + 1),
                    !.removed = st.removed \o SliceFrom(st.levels, index + 1)]

\* removeLevelsFrom(index)
removeLevelsFrom(st, index) ==
    IF index >= Len(st.levels) THEN st
    ELSE [st EXCEPT !.levels = SliceTo(st.levels, index),
                    !.removed = st.removed \o SliceFrom(st.levels, index)]

\* switchChildLevels without the slice that drops the old child level
switchChildLevels_noSlice(st, childIndex, newLevelName, newParentSegmentId, newSegments) ==
    LET newLevel == NewLevel(newLevelName, newParentSegmentId, newSegments)
    IN  [st EXCEPT !.levels = Append(st.levels, newLevel),
                   !.added = Append(st.added, newLevel)]

\* switchChildLevels(childIndex, newLevelName, newParentSegmentId, newSegments)
switchChildLevels(st, childIndex, newLevelName, newParentSegmentId, newSegments) ==
    LET newLevel == NewLevel(newLevelName, newParentSegmentId, newSegments)
    IN  [st EXCEPT !.levels = Append(SliceTo(st.levels, childIndex), newLevel),
                   !.removed = st.removed \o SliceFrom(st.levels, childIndex),
                   !.added = Append(st.added, newLevel)]

\* switchMultipleLevels dropping only the deepest level
switchMultipleLevels_deepestOnly(st, childIndex, newLevelName, newParentSegmentId, newSegments) ==
    LET newLevel == NewLevel(newLevelName, newParentSegmentId, newSegments)
    IN  [st EXCEPT !.levels = Append(SliceTo(st.levels, Len(st.levels) - 1), newLevel),
                   !.removed = st.removed \o SliceFrom(st.levels, Len(st.levels) - 1),
                   !.added = Append(st.added, newLevel)]

\* switchMultipleLevels(childIndex, newLevelName, newParentSegmentId, newSegments)
switchMultipleLevels(st, childIndex, newLevelName, newParentSegmentId, newSegments) ==
    LET newLevel == NewLevel(newLevelName, newParentSegmentId, newSegments)
    IN  [st EXCEPT !.levels = Append(SliceTo(st.levels, childIndex), newLevel),
                   !.removed = st.removed \o SliceFrom(st.levels, childIndex),
                   !.added = Append(st.added, newLevel)]

\* for (let i = levelIndex; i < this.levels.length; i++) this.selectedSegments.delete(i)
ClearSelectionsFrom(sel, levelIndex, levelCount) ==
    [i \in DOMAIN sel \ (levelIndex..(levelCount - 1)) |-> sel[i]]

\* this.selectedSegments.set(levelIndex, segmentId)
MapSet(sel, levelIndex, segmentId) ==
    [i \in DOMAIN sel \cup {levelIndex} |-> IF i = levelIndex THEN segmentId ELSE sel[i]]

\* handleSegmentClick(segment, levelIndex)
handleSegmentClick(c, st, segment, levelIndex) ==
    LET isCurrentlySelected == isSegmentSelected(st.selectedSegments, segment.id, levelIndex)
        cleared == ClearSelectionsFrom(st.selectedSegments, levelIndex, Len(st.levels))
        trimmed == SliceTo(st.selectionPath, levelIndex)
        st1 == [st EXCEPT
                  !.selectedSegments = IF isCurrentlySelected THEN cleared
                                       ELSE MapSet(cleared, levelIndex, segment.id),
                  !.selectionPath = IF isCurrentlySelected THEN trimmed
                                    ELSE Append(trimmed, segment)]
        hasChildLevels == Len(st.levels) > levelIndex + 1
        willAddNewChild == ~isCurrentlySelected /\ segmentHasChildren(c, segment)
        childSegments == getSegmentsForLevel(c, childLevelName(segment), segment.id)
        numLevelsToRemove == Len(st.levels) - (levelIndex + 1)
        newChildLevelIndex == levelIndex + 1
    IN  IF willAddNewChild
        THEN IF Len(childSegments) > 0
             THEN IF hasChildLevels
                  THEN IF numLevelsToRemove = 1
                       THEN switchChildLevels(st1, newChildLevelIndex, childLevelName(segment),
                                              <<segment.id>>, childSegments)
                       ELSE switchMultipleLevels(st1, newChildLevelIndex, childLevelName(segment),
                                                 <<segment.id>>, childSegments)
                  ELSE addLevel(st1, childLevelName(segment), <<segment.id>>, childSegments)
             ELSE st1
        ELSE IF hasChildLevels THEN removeLevelsFrom(st1, levelIndex + 1)
        ELSE st1

\* the Escape case without the reset of selectionPath
handleEscape_keepPath(st) ==
    removeLevelsFrom([st EXCEPT !.selectedSegments = EmptyMap], 1)

\* handleKeyDown, case 'Escape'
handleEscape(st) ==
    removeLevelsFrom([st EXCEPT !.selectedSegments = EmptyMap, !.selectionPath = <<>>], 1)

\* the Backspace case without the guard that keeps the last level
handleBackspace_pastRoot(st) ==
    IF Len(st.levels) >= 1 THEN removeLevelsFrom(st, Len(st.levels) - 1) ELSE st

\* the Backspace case removing every level below the root
handleBackspace_toRoot(st) ==
    IF Len(st.levels) > 1 THEN removeLevelsFrom(st, 1) ELSE st

\* handleKeyDown, case 'Backspace'
handleBackspace(st) ==
    IF Len(st.levels) > 1 THEN removeLevelsFrom(st, Len(st.levels) - 1) ELSE st

-----------------------------------------------------------------------------
(* Navigation specification *)

\* the payloads the visualizer is driven with: two row groups over three
\* column chunks with pages, indexed row-group metadata, a nested schema and
\* key-value metadata, so that both overview branches are several levels deep
NavPayloads ==
    { Payload(3, 2, "ascending", TRUE, "indexed", Schemas[3], KeyValues[3], 1000),
      Payload(1, 1, "ascending", FALSE, "none", Schemas[2], KeyValues[1], 1000) }

Current == NavState(levels, selectedSegments, selectionPath, <<>>, <<>>)

Event(op, levelIndex, segment, st) ==
    [op |-> op, levelIndex |-> levelIndex, segment |-> segment,
     levels |-> levels, selectedSegments |-> selectedSegments, selectionPath |-> selectionPath,
     removed |-> st.removed, added |-> st.added, n |-> 0]

Apply(st) ==
    /\ levels' = st.levels
    /\ selectedSegments' = st.selectedSegments
    /\ selectionPath' = st.selectionPath

Init ==
    /\ fileData \in NavPayloads
    /\ cache = NoCache
    /\ bpc = "loaded"
    /\ query = <<>>
    /\ found = <<>>
    /\ LayoutIdle
    /\ levels = <<>>
    /\ selectedSegments = EmptyMap
    /\ selectionPath = <<>>
    /\ npc = "constructed"
    /\ last = NoEvent
    /\ dom = <<>>
    /\ UrlIdle

\* initWithData(data), up to the requestAnimationFrame call
InitWithData ==
    /\ npc = "constructed"
    /\ ~BuildThrows(fileData)
    /\ cache' = buildAll(fileData)
    /\ bpc' = "built"
    /\ levels' = <<>>
    /\ selectedSegments' = EmptyMap
    /\ selectionPath' = <<>>
    /\ npc' = "waiting"
    /\ UNCHANGED <<fileData, query, found, lvars, last, dom, uvars>>

\* the frame callback of initWithData: addLevel('overview', null, overviewSegments)
InitialDisplay ==
    /\ npc = "waiting"
    /\ LET st == addLevel(Current, "overview", <<>>, getSegmentsForLevel(cache, "overview", <<>>))
       IN  Apply(st) /\ last' = Event("display", -1, <<>>, st)
    /\ npc' = "ready"
    /\ UNCHANGED <<bvars, lvars, dom, uvars>>

\* the click listener of a segment rectangle of a displayed level
SegmentClick ==
    /\ \E levelIndex \in 0..(Len(levels) - 1) :
         \E segment \in Range(levels[levelIndex + 1].segments) :
            LET st == handleSegmentClick(cache, Current, segment, levelIndex)
            IN  Apply(st) /\ last' = Event("click", levelIndex, <<segment>>, st)
    /\ UNCHANGED <<bvars, lvars, npc, dom, uvars>>

\* keydown with event.key = 'Escape'; the listener is installed by the constructor
KeyEscape ==
    /\ npc # "idle"
    /\ LET st == handleEscape(Current)
       IN  Apply(st) /\ last' = Event("escape", -1, <<>>, st)
    /\ UNCHANGED <<bvars, lvars, npc, dom, uvars>>

\* keydown with event.key = 'Backspace'
KeyBackspace ==
    /\ npc # "idle"
    /\ LET st == handleBackspace(Current)
       IN  Apply(st) /\ last' = Event("backspace", -1, <<>>, st)
    /\ UNCHANGED <<bvars, lvars, npc, dom, uvars>>

Next == InitWithData \/ InitialDisplay \/ SegmentClick \/ KeyEscape \/ KeyBackspace

Spec == Init /\ [][Next]_vars

-----------------------------------------------------------------------------
(* The level groups in the SVG element and the timers that remove them.      *)
(* Every level object owns one <g class="level"> group (level.svgGroup),     *)
(* created with the level and put into the SVG element by animateSlideDown.  *)
(* A call that takes levels off the stack leaves their groups in place and   *)
(* starts, per level, setTimeout(i * 50) -> animateSlideUp[WithParent] ->    *)
(* setTimeout(300) -> removeChild.  dom holds one record per group in the    *)
(* SVG element: the level, the levelIndex its click listeners captured, the  *)
(* stage of its removal ("shown": none started, "scheduled": the staggered   *)
(* timer is pending, "sliding": the 300 ms timer is pending, "stuck":        *)
(* the slide-up threw before it set the 300 ms timer), the call that took it *)
(* off the stack (batch, 0 while shown) and the slide-up that call uses.     *)
(* The funnel polygon of a level is removed by the same timer callback as    *)
(* the group, so the record stands for both.                                 *)

\* level groups the SVG element may hold at once
MaxGroups == 4

\* levels the stack may hold
MaxLevels == 3

\* clicks and key presses in one run
MaxEvents == 4

\* createLevelGroup(level, levelIndex)
createLevelGroup(level, levelIndex) ==
    [level |-> level, levelIndex |-> levelIndex, stage |-> "shown", batch |-> 0, via |-> "none"]

Batches(d) == {d[i].batch : i \in 1..Len(d)}

NewBatch(d) == CHOOSE b \in 1..(Len(d) + 1) : b \notin Batches(d)

\* the slide-up the handler's removing call hands its levels to
SlideUpOf(st) ==
    IF Len(st.added) = 1 /\ Len(st.removed) > 1 THEN "animateSlideUpWithParent" ELSE "animateSlideUp"

\* the groups after a handler returned st: the levels it took off the stack
\* (those at index Len(st.levels) - Len(st.added) and deeper) wait for their
\* staggered timer, the levels it created have their group inserted
DomAfter(d, st) ==
    LET from == Len(st.levels) - Len(st.added)
        batch == NewBatch(d)
        kept == [i \in 1..Len(d) |->
                    IF d[i].stage = "shown" /\ d[i].levelIndex >= from /\ st.removed # <<>>
                    THEN [d[i] EXCEPT !.stage = "scheduled", !.batch = batch, !.via = SlideUpOf(st)]
                    ELSE d[i]]
    IN  kept \o [j \in 1..Len(st.added) |-> createLevelGroup(st.added[j], Len(st.levels) - Len(st.added) + j - 1)]

\* l.layout?.segments?.some(s => s.segment.id === parentSegmentId)
HoldsSegment(level, parentSegmentId) ==
    \E j \in 1..Len(level.segments) : <<level.segments[j].id>> = parentSegmentId

\* whether the parent level the slide-up of group g looks up has its group in
\* the SVG element; insertBefore(group, parentLevel.svgGroup) throws otherwise
ParentFound(lv, d, g) ==
    /\ g.level.parentSegmentId # <<>>
    /\ \/ \E i \in 1..Len(lv) : HoldsSegment(lv[i], g.level.parentSegmentId)
       \/ /\ g.via = "animateSlideUpWithParent"
          /\ \E k \in 1..Len(d) : d[k].batch = g.batch /\ HoldsSegment(d[k].level, g.level.parentSegmentId)

ParentInDom(lv, d, g) ==
    IF \E i \in 1..Len(lv) : HoldsSegment(lv[i], g.level.parentSegmentId)
    THEN LET i == CHOOSE i \in 1..Len(lv) :
                     /\ HoldsSegment(lv[i], g.level.parentSegmentId)
                     /\ \A h \in 1..(i - 1) : ~HoldsSegment(lv[h], g.level.parentSegmentId)
         IN  \E k \in 1..Len(d) : d[k].stage = "shown" /\ d[k].levelIndex = i - 1
    ELSE \E k \in 1..Len(d) : d[k].batch = g.batch /\ HoldsSegment(d[k].level, g.level.parentSegmentId)

\* a slide-up that returns early, before setting the 300 ms timer, when the
\* level has no parent level to slide behind
animateSlideUp_needsParent(lv, d, g) ==
    IF ~ParentFound(lv, d, g) \/ ~ParentInDom(lv, d, g) THEN "stuck" ELSE "sliding"

\* animateSlideUp / animateSlideUpWithParent: the stage of g's removal after the call
animateSlideUp(lv, d, g) ==
    IF ParentFound(lv, d, g) /\ ~ParentInDom(lv, d, g) THEN "stuck" ELSE "sliding"

\* timers set by one call fire in the order of their delays: the staggered
\* timers deepest level first, every 300 ms timer after the staggered ones
\* (i * 50 < 300 for the levels a stack of MaxLevels can lose at once)
StaggerDue(d, k) ==
    /\ d[k].stage = "scheduled"
    /\ \A j \in 1..Len(d) :
          (d[j].batch = d[k].batch /\ d[j].stage = "scheduled") => d[j].levelIndex <= d[k].levelIndex

RemovalDue(d, k) ==
    /\ d[k].stage = "sliding"
    /\ \A j \in 1..Len(d) :
          d[j].batch = d[k].batch =>
              /\ d[j].stage # "scheduled"
              /\ d[j].stage = "sliding" => d[j].levelIndex <= d[k].levelIndex

-----------------------------------------------------------------------------
(* Navigation with the SVG element: the events reach every segment           *)
(* rectangle that is in the SVG element, the timers run between them         *)

DomPayloads ==
    { Payload(1, 1, "ascending", FALSE, "none", Schemas[2], KeyValues[1], 1000) }

InitDom ==
    /\ fileData \in DomPayloads
    /\ cache = NoCache
    /\ bpc = "loaded"
    /\ query = <<>>
    /\ found = <<>>
    /\ LayoutIdle
    /\ levels = <<>>
    /\ selectedSegments = EmptyMap
    /\ selectionPath = <<>>
    /\ npc = "constructed"
    /\ last = NoEvent
    /\ dom = <<>>
    /\ UrlIdle

Fits(st) ==
    /\ last.n < MaxEvents
    /\ Len(st.levels) <= MaxLevels
    /\ Len(dom) + Len(st.added) <= MaxGroups

\* the event with its number in the run
DomEvent(op, levelIndex, segment, st) ==
    [Event(op, levelIndex, segment, st) EXCEPT !.n = IF op = "display" THEN 0 ELSE last.n + 1]

\* the frame callback of initWithData, with the group of the overview level
DomInitialDisplay ==
    /\ npc = "waiting"
    /\ LET st == addLevel(Current, "overview", <<>>, getSegmentsForLevel(cache, "overview", <<>>))
       IN  Apply(st) /\ last' = DomEvent("display", -1, <<>>, st) /\ dom' = DomAfter(dom, st)
    /\ npc' = "ready"
    /\ UNCHANGED <<bvars, lvars, uvars>>

\* the click listener of a segment rectangle of any group in the SVG element,
\* called with the levelIndex the group was created with
DomSegmentClick ==
    /\ \E k \in 1..Len(dom) :
         \E segment \in Range(dom[k].level.segments) :
            LET st == handleSegmentClick(cache, Current, segment, dom[k].levelIndex)
            IN  /\ Fits(st)
                /\ Apply(st)
                /\ last' = DomEvent("click", dom[k].levelIndex, <<segment>>, st)
                /\ dom' = DomAfter(dom, st)
    /\ UNCHANGED <<bvars, lvars, npc, uvars>>

DomKeyEscape ==
    /\ npc # "idle"
    /\ LET st == handleEscape(Current)
       IN  Fits(st) /\ Apply(st) /\ last' = DomEvent("escape", -1, <<>>, st) /\ dom' = DomAfter(dom, st)
    /\ UNCHANGED <<bvars, lvars, npc, uvars>>

DomKeyBackspace ==
    /\ npc # "idle"
    /\ LET st == handleBackspace(Current)
       IN  Fits(st) /\ Apply(st) /\ last' = DomEvent("backspace", -1, <<>>, st) /\ dom' = DomAfter(dom, st)
    /\ UNCHANGED <<bvars, lvars, npc, uvars>>

\* the callback of setTimeout(..., i * 50): the slide-up of one level starts
StaggerTimer ==
    /\ \E k \in 1..Len(dom) :
          /\ StaggerDue(dom, k)
          /\ dom' = [dom EXCEPT ![k].stage = animateSlideUp(levels, dom, dom[k])]
    /\ UNCHANGED <<bvars, lvars, levels, selectedSegments, selectionPath, npc, last, uvars>>

\* the callback of setTimeout(..., 300): group.parentNode.removeChild(group)
RemovalTimer ==
    /\ \E k \in 1..Len(dom) :
          /\ RemovalDue(dom, k)
          /\ dom' = SubSeq(dom, 1, k - 1) \o SubSeq(dom, k + 1, Len(dom))
    /\ UNCHANGED <<bvars, lvars, levels, selectedSegments, selectionPath, npc, last, uvars>>

NextDom ==
    \/ InitWithData
    \/ DomInitialDisplay
    \/ DomSegmentClick
    \/ DomKeyEscape
    \/ DomKeyBackspace
    \/ StaggerTimer
    \/ RemovalTimer

SpecDom == InitDom /\ [][NextDom]_vars

\* a timer that was set fires: the browser runs the callback of every
\* setTimeout once its delay has passed, whatever the user does meanwhile
SpecDomLive == SpecDom /\ WF_vars(StaggerTimer) /\ WF_vars(RemovalTimer)

-----------------------------------------------------------------------------
(* URLFileAdapter: chunked range reads with a cache of fetched chunks.  The  *)
(* cache is a JavaScript Map; only its keys, in insertion order, matter      *)
(* here.  The key `${chunkStart}-${chunkEnd}` of two non-negative integers   *)
(* is modelled as the pair, which the template string maps one to one.       *)

\* this.chunkSize = 64 * 1024
chunkSize == 65536

\* if (this.cache.size > 10)
MAX_CACHED_CHUNKS == 10

\* the aligned range and its cache key
CacheKey(start, end) == <<(start \div chunkSize) * chunkSize, CeilDiv(end, chunkSize) * chunkSize>>

\* read(size): the number of bytes the call asks _fetchRange for
BytesToRead(size, fileSize, position) ==
    IF size = -1 THEN fileSize - position ELSE Min2(size, fileSize - position)

\* seek(offset, whence): the new position, clamped to [0, size]
seek(position, fileSize, offset, whence) ==
    LET newPos == CASE whence = 0 -> offset
                    [] whence = 1 -> position + offset
                    [] whence = 2 -> fileSize + offset
    IN  IF newPos < 0 THEN 0 ELSE IF newPos > fileSize THEN fileSize ELSE newPos

\* this.cache.set(cacheKey, chunk): a new key goes last, a present key stays
CacheSet(c, key) == IF key \in Range(c) THEN c ELSE Append(c, key)

\* the key this.cache.keys().next().value when the cache is over its limit
Evicted(c) == IF Len(c) > MAX_CACHED_CHUNKS THEN <<c[1]>> ELSE <<>>

Without(c, opt) == SelectSeq(c, LAMBDA k : <<k>> # opt)

\* key becomes the most recently read one
Touch(rec, key) == Append(Without(rec, <<key>>), key)

RemoveAt(s, i) == SubSeq(s, 1, i - 1) \o SubSeq(s, i + 1, Len(s))

-----------------------------------------------------------------------------
(* Adapter specification: a reader that reads one chunk's length at a time   *)
(* and seeks to the start or to one chunk's length before the end            *)

\* twelve chunks, the last one partial
UrlFileSizes == {11 * chunkSize + 100}

ReadSizes == {chunkSize}

\* seek(offset, whence) calls
SeekCalls == {<<0, 0>>, <<-chunkSize, 2>>}

\* reads that may wait for their range request at the same time
MaxPending == 1

\* read calls made by the reader in one run
MaxReads == 13

Call(op, evicted, rec) ==
    [op |-> op, evicted |-> evicted, recent |-> rec,
     reads |-> IF op = "read" THEN ulast.reads + 1 ELSE ulast.reads]

InitUrl ==
    /\ BuilderIdle
    /\ LayoutIdle
    /\ NavIdle
    /\ urlSize = Undef
    /\ urlPosition = 0
    /\ urlCache = <<>>
    /\ pending = <<>>
    /\ recent = <<>>
    /\ ulast = NoCall
    /\ upc = "constructed"

\* initialize(): the HEAD request answered with a content-length
UrlInitialize ==
    /\ upc = "constructed"
    /\ urlSize' \in UrlFileSizes
    /\ upc' = "initialized"
    /\ UNCHANGED <<bvars, lvars, nvars, urlPosition, urlCache, pending, recent, ulast>>

\* seek(offset, whence)
UrlSeek ==
    /\ upc = "initialized"
    /\ \E call \in SeekCalls : urlPosition' = seek(urlPosition, urlSize, call[1], call[2])
    /\ ulast' = Call("seek", <<>>, <<>>)
    /\ UNCHANGED <<bvars, lvars, nvars, urlSize, urlCache, pending, recent, upc>>

\* read(size) up to the first await: a cache hit returns the cached bytes and
\* advances the position, a miss sends the range request
UrlRead ==
    /\ upc = "initialized"
    /\ Len(pending) < MaxPending
    /\ ulast.reads < MaxReads
    /\ \E size \in ReadSizes :
          LET bytesToRead == BytesToRead(size, urlSize, urlPosition)
              key == CacheKey(urlPosition, urlPosition + bytesToRead)
          IN  /\ bytesToRead > 0
              /\ IF key \in Range(urlCache)
                 THEN /\ urlPosition' = urlPosition + bytesToRead
                      /\ recent' = Touch(recent, key)
                      /\ ulast' = Call("read", <<>>, <<>>)
                      /\ UNCHANGED pending
                 ELSE /\ pending' = Append(pending, [key |-> key, bytes |-> bytesToRead])
                      /\ ulast' = Call("read", <<>>, <<>>)
                      /\ UNCHANGED <<urlPosition, recent>>
    /\ UNCHANGED <<bvars, lvars, nvars, urlSize, urlCache, upc>>

\* the rest of _fetchRange and read once the response of a request arrives
UrlFetchDone ==
    /\ \E i \in 1..Len(pending) :
          LET key == pending[i].key
              stored == CacheSet(urlCache, key)
              read == Touch(recent, key)
              evicted == Evicted(stored)
          IN  /\ urlCache' = Without(stored, evicted)
              /\ recent' = Without(read, evicted)
              /\ urlPosition' = urlPosition + pending[i].bytes
              /\ pending' = RemoveAt(pending, i)
              /\ ulast' = Call("fetched", evicted, IF evicted = <<>> THEN <<>> ELSE read)
    /\ UNCHANGED <<bvars, lvars, nvars, urlSize, upc>>

\* the request fails or is answered with an error status: _fetchRange throws
UrlFetchFail ==
    /\ \E i \in 1..Len(pending) : pending' = RemoveAt(pending, i)
    /\ ulast' = Call("failed", <<>>, <<>>)
    /\ UNCHANGED <<bvars, lvars, nvars, urlSize, urlPosition, urlCache, recent, upc>>

NextUrl == UrlInitialize \/ UrlSeek \/ UrlRead \/ UrlFetchDone \/ UrlFetchFail

SpecUrl == InitUrl /\ [][NextUrl]_vars

-----------------------------------------------------------------------------
(* Properties of the hierarchy builder *)

Built == bpc \in {"built", "queried"}

\* C8: every id of a segment stored in any bucket of the cache is found by
\* findSegment: a lookup of such an id returns a segment with that id, not null.
C8_FindSegmentTotal ==
    (bpc = "queried" /\ \E s \in Range(AllSegments(cache)) : s.id = query)
        => (found # <<>> /\ found[1].id = query)

\* C9: no two segments of the cache, in whatever buckets, share an id.
C9_UniqueIds ==
    Built => LET all == AllSegments(cache)
             IN  \A i, j \in 1..Len(all) : i # j => all[i].id # all[j].id

ColumnChunkSegments == MapValuesFlat(cache.columnchunks)

\* each physical chunk is the physicalMetadata of exactly one column-chunk segment
EachChunkOnce ==
    \A i \in 1..Len(fileData.column_chunks) :
        Cardinality({j \in 1..Len(ColumnChunkSegments) :
                        ColumnChunkSegments[j].physicalMetadata = <<fileData.column_chunks[i]>>}) = 1

\* C10 as stated: for every N and R the column-chunk buckets hold exactly N
\* segments and every physical chunk backs exactly one of them.
C10_PartitionAnyR ==
    Built => (Len(ColumnChunkSegments) = Len(fileData.column_chunks) /\ EachChunkOnce)

\* C10 amended: the same for every N and every R >= 1; with no row groups
\* (R = 0 or row_groups absent) no column-chunk bucket is built at all.
C10_Partition ==
    Built => IF Len(RowGroupsOf(fileData)) >= 1
             THEN Len(ColumnChunkSegments) = Len(fileData.column_chunks) /\ EachChunkOnce
             ELSE cache.columnchunks = <<>>

\* an uneven split: 3 chunks over 2 row groups, built into buckets of 2 and 1
C10_Witness ==
    /\ Built
    /\ Len(fileData.column_chunks) = 3
    /\ Len(RowGroupsOf(fileData)) = 2
    /\ Len(cache.columnchunks) = 2
    /\ Len(cache.columnchunks[1].v) = 2
    /\ Len(cache.columnchunks[2].v) = 1

\* the byte ranges of the payload fit the file: the column chunks, or without
\* chunks the metadata block, end before the footer
FitsFile(fd) ==
    IF Len(fd.column_chunks) > 0
    THEN \A i \in 1..Len(fd.column_chunks) :
            IsNum(fd.column_chunks[i].start_offset) =>
                fd.column_chunks[i].start_offset + fd.column_chunks[i].total_byte_size
                    <= fd.filesize - FOOTER_SIZE
    ELSE MAGIC_SIZE + OrNum(fd.metadata.total_byte_size, fd.metadata.json_length) + FOOTER_SIZE
            <= fd.filesize

\* C11: for a payload whose byte ranges fit the file, whatever optional
\* fields are absent (row_groups, key_value_metadata, column index fields,
\* pages, start_offset / byte_length / key of an entry, total_byte_size),
\* buildAll does not throw, and the levels of an absent structure are empty.
C11_MissingFieldsNeverThrow ==
    (bpc # "loaded" /\ FitsFile(fileData)) =>
        /\ bpc # "threw"
        /\ Inner(fileData).row_groups = <<>> =>
              (cache.rowgroups = <<>> /\ cache.columnchunks = <<>> /\ cache.rowgroupelements = <<>>)
        /\ Inner(fileData).key_value_metadata = <<>> => cache.keyvaluemetadata = <<>>
        /\ Inner(fileData).schema_root = <<>> => cache.schemaelements = <<>>

-----------------------------------------------------------------------------
(* Properties of the layout calculator *)

LayoutWidths == [i \in 1..Len(lout) |-> lout[i].width]

\* C2: for a non-empty segment list and W > 0 the returned widths sum to W,
\* whatever the sizes, gaps and overlaps are.
C2_WidthsSumToContainer ==
    (lpc = "done" /\ Len(lsegs) > 0 /\ lwidth > 0) => RSum(LayoutWidths) = RInt(lwidth)


-----------------------------------------------------------------------------
(* Properties of the navigation state machine *)

Clicked == last.segment[1]

ClickedSelected ==
    /\ last.op = "click"
    /\ isSegmentSelected(last.selectedSegments, Clicked.id, last.levelIndex)

ClickedUnselected ==
    /\ last.op = "click"
    /\ ~isSegmentSelected(last.selectedSegments, Clicked.id, last.levelIndex)

PathWithChildren ==
    {i \in 1..Len(selectionPath) : segmentHasChildren(cache, selectionPath[i])}

\* C1: once the root level is displayed, after any sequence of clicks, Escape
\* and Backspace, the number of displayed levels is 1 plus the number of
\* segments in selectionPath that have children.
C1_StackInvariant ==
    npc = "ready" => Len(levels) = 1 + Cardinality(PathWithChildren)

\* C3: after Escape, pressed while at least the root level is displayed,
\* exactly one level is displayed and selectedSegments and selectionPath are
\* both empty.
C3_EscapeResets ==
    (last.op = "escape" /\ Len(last.levels) >= 1) =>
        /\ Len(levels) = 1
        /\ selectedSegments = EmptyMap
        /\ selectionPath = <<>>

C3_Witness ==
    /\ last.op = "escape"
    /\ Len(last.levels) >= 3
    /\ Len(last.selectionPath) >= 2
    /\ Len(levels) = 1

SwitchCase ==
    /\ ClickedUnselected
    /\ last.levelIndex \in DOMAIN last.selectedSegments
    /\ Len(last.levels) = last.levelIndex + 2
    /\ last.levels[last.levelIndex + 2].parentSegmentId
          = <<last.selectedSegments[last.levelIndex]>>
    /\ segmentHasChildren(cache, Clicked)

\* C4: with a segment A selected at level L and A's children as the deepest
\* displayed level L+1, a click on a different segment B at level L that has
\* children leaves the number of levels unchanged, removes exactly one level
\* and adds exactly one, and the new level L+1 has B as its parent and B's
\* children as its segments.
C4_SameLevelSwitch ==
    SwitchCase =>
        /\ Len(levels) = Len(last.levels)
        /\ Len(last.removed) = 1
        /\ Len(last.added) = 1
        /\ SliceTo(levels, last.levelIndex + 1) = SliceTo(last.levels, last.levelIndex + 1)
        /\ levels[last.levelIndex + 2] = last.added[1]
        /\ levels[last.levelIndex + 2].parentSegmentId = <<Clicked.id>>
        /\ levels[last.levelIndex + 2].segments
              = getSegmentsForLevel(cache, childLevelName(Clicked), Clicked.id)

C4_Witness ==
    /\ SwitchCase
    /\ last.levelIndex >= 1
    /\ levels[last.levelIndex + 2].parentSegmentId = <<Clicked.id>>
    /\ last.removed = <<last.levels[last.levelIndex + 2]>>

\* C5: a click on the segment that is already selected at level L leaves no
\* entry in selectedSegments for any index >= L, leaves selectionPath with
\* length L, and leaves L+1 displayed levels.
C5_Deselect ==
    ClickedSelected =>
        /\ \A i \in DOMAIN selectedSegments : i < last.levelIndex
        /\ Len(selectionPath) = last.levelIndex
        /\ Len(levels) = last.levelIndex + 1

\* C6: a click on a segment that is not selected at level L sets
\* selectedSegments[L] to its id, makes selectionPath its first L entries
\* followed by the clicked segment (length L+1), and leaves no entry in
\* selectedSegments for any index > L.
C6_Select ==
    ClickedUnselected =>
        /\ isSegmentSelected(selectedSegments, Clicked.id, last.levelIndex)
        /\ selectionPath = Append(SliceTo(last.selectionPath, last.levelIndex), Clicked)
        /\ Len(selectionPath) = last.levelIndex + 1
        /\ \A i \in DOMAIN selectedSegments : i <= last.levelIndex

\* C7: Backspace with more than one level displayed removes exactly the
\* deepest level and leaves selectedSegments and selectionPath unchanged;
\* with only the root level displayed it changes nothing.
C7_BackspaceOneLevel ==
    last.op = "backspace" =>
        /\ selectedSegments = last.selectedSegments
        /\ selectionPath = last.selectionPath
        /\ IF Len(last.levels) > 1
           THEN /\ levels = SliceTo(last.levels, Len(last.levels) - 1)
                /\ last.removed = <<last.levels[Len(last.levels)]>>
           ELSE levels = last.levels /\ last.removed = <<>>

C7_Witness ==
    /\ last.op = "backspace"
    /\ Len(last.levels) >= 3
    /\ Len(levels) = Len(last.levels) - 1
    /\ Len(selectionPath) >= 2

-----------------------------------------------------------------------------
(* Further properties of the layout calculator *)

AllSameSize(segs) == \A i, j \in 1..Len(segs) : SizeOf(segs[i]) = SizeOf(segs[j])

\* C12: for an empty segment list, for containerWidth = 0 and for lists
\* whose segments all have the same size (a zero byte span included), every
\* x and width computeLevelLayout returns is a number, not NaN.
C12_NoNaNGeometry ==
    (lpc = "level" /\ (Len(lsegs) = 0 \/ lwidth = 0 \/ AllSameSize(lsegs))) =>
        /\ ~RIsNaN(lout.x) /\ ~RIsNaN(lout.width)
        /\ \A i \in 1..Len(lout.segments) :
              ~RIsNaN(lout.segments[i].x) /\ ~RIsNaN(lout.segments[i].width)
\* C13: in the layout calculateSegmentWidths returns, no segment is narrower
\* than the minWidth reported for it, whether or not it was expanded or
\* rescaled by the redistribution step.
C13_WidthAtLeastFloor ==
    lpc = "done" => \A i \in 1..Len(lout) : ~RLt(lout[i].width, lout[i].minWidth)
LayoutSpan ==
    MathMax([i \in 1..Len(lsegs) |-> lsegs[i].end]) - MathMin([i \in 1..Len(lsegs) |-> lsegs[i].start])

LayoutFloors == calculateLogarithmicMinWidths(lsegs, LayoutSpan, lwidth)

\* C14: every segment whose natural width is strictly below its floor (the
\* floor after any global scale-down) is marked isExpanded and gets exactly
\* that floor as its width, redistribution or not.
C14_ExpandedGetFloor ==
    lpc = "done" =>
        \A i \in 1..Len(lout) :
            /\ lout[i].minWidth = LayoutFloors[i]
            /\ lout[i].naturalWidth
                  = RMul(Rat(SizeOf(lsegs[i]), LayoutSpan), RInt(lwidth))
            /\ RLt(lout[i].naturalWidth, lout[i].minWidth) =>
                  (lout[i].isExpanded /\ lout[i].width = LayoutFloors[i])

\* floors scaled down to fit (20 px for floors of 5 + 15 + 25), two segments
\* expanded to them, the third one rescaled by the redistribution step
C14_Witness ==
    /\ lpc = "done"
    /\ Len(lout) = 3
    /\ lwidth = 20
    /\ RSum([i \in 1..3 |-> lout[i].minWidth]) = RInt(20)
    /\ lout[1].isExpanded /\ lout[1].width = lout[1].minWidth
    /\ lout[2].isExpanded /\ lout[2].width = lout[2].minWidth
    /\ RLt(lout[1].minWidth, RInt(STARTING_BASELINE))
    /\ ~lout[3].isExpanded /\ lout[3].width # lout[3].naturalWidth
\* C15: a level with exactly one segment and W > 0 gives that segment
\* x = 0 and width = W, whatever the segment is (start = end included).
C15_SingleSegmentFills ==
    (lpc = "done" /\ Len(lsegs) = 1 /\ lwidth > 0) =>
        (lout[1].x = RInt(0) /\ lout[1].width = RInt(lwidth))
-----------------------------------------------------------------------------
(* Further properties of the hierarchy builder *)

\* C16: every segment of a returned cache has 0 <= start <= end and
\* size = end - start.
C16_SpanInvariant ==
    Built => \A s \in Range(AllSegments(cache)) :
                /\ IsNum(s.start) /\ IsNum(s.end)
                /\ 0 <= s.start /\ s.start <= s.end
                /\ SizeOf(s) = s.end - s.start
\* the five overview segments of a file of size F with a metadata block of m bytes
ExpectedOverview(F, m) ==
    << Segment(<<"header", "_", "magic">>, <<"MAGIC">>, 0, 4),
       Segment(<<"rowgroups">>, <<"ROWGROUPS">>, 4, F - m - 8),
       Segment(<<"metadata">>, <<"METADATA">>, F - m - 8, F - 8),
       Segment(<<"footer">>, <<"FOOTER">>, F - 8, F - 4),
       Segment(<<"footer", "_", "magic">>, <<"MAGIC">>, F - 4, F) >>

Contiguous(segs, F) ==
    /\ segs[1].start = 0
    /\ segs[Len(segs)].end = F
    /\ \A i \in 1..(Len(segs) - 1) : segs[i + 1].start = segs[i].end

NoChunksWithSize ==
    /\ Built
    /\ Len(fileData.column_chunks) = 0
    /\ IsNum(fileData.metadata.total_byte_size)
    /\ fileData.metadata.total_byte_size + 12 <= fileData.filesize

\* C17 as stated: without column chunks, for every metadata.total_byte_size m
\* with m + 12 <= F, the overview is header_magic [0,4), rowgroups [4,F-m-8),
\* metadata [F-m-8,F-8), footer [F-8,F-4), footer_magic [F-4,F), contiguous
\* over [0,F).
C17_OverviewAnySize ==
    NoChunksWithSize =>
        /\ cache.overview = ExpectedOverview(fileData.filesize, fileData.metadata.total_byte_size)
        /\ Contiguous(cache.overview, fileData.filesize)

\* C17 amended: the same for every m >= 1; a total_byte_size of 0 counts as
\* absent and the size of the metadata block is estimated instead.
C17_Overview ==
    (NoChunksWithSize /\ fileData.metadata.total_byte_size >= 1) =>
        /\ cache.overview = ExpectedOverview(fileData.filesize, fileData.metadata.total_byte_size)
        /\ Contiguous(cache.overview, fileData.filesize)

C17_Witness ==
    /\ NoChunksWithSize
    /\ fileData.filesize = 1000
    /\ fileData.metadata.total_byte_size = 100
    /\ Len(cache.overview) = 5
    /\ cache.overview[2].end = 892
    /\ cache.overview[3].start = 892
\* positions (in column_chunks) of the chunks that belong to row group index:
\* blocks of ceil(N / R) consecutive chunks
AssignedTo(index) ==
    LET N == Len(fileData.column_chunks)
        R == Len(RowGroupsOf(fileData))
    IN  {p \in 1..N : (p - 1) \div CeilDiv(N, R) = index}

ChunkStarts(index) == {fileData.column_chunks[p].start_offset : p \in AssignedTo(index)}

ChunkEnds(index) ==
    {fileData.column_chunks[p].start_offset + fileData.column_chunks[p].total_byte_size :
        p \in AssignedTo(index)}

Located(index) ==
    \A p \in AssignedTo(index) : /\ IsNum(fileData.column_chunks[p].start_offset)
                                 /\ IsNum(fileData.column_chunks[p].total_byte_size)

Least(S) == CHOOSE x \in S : \A y \in S : x <= y

Greatest(S) == CHOOSE x \in S : \A y \in S : y <= x

Ranges(segs) == [i \in 1..Len(segs) |-> [id |-> segs[i].id, start |-> segs[i].start, end |-> segs[i].end]]

MapRanges(m) == [i \in 1..Len(m) |-> [k |-> m[i].k, v |-> Ranges(m[i].v)]]

\* bucket keys and, bucket by bucket, the ids and ranges in order
Tree(c) ==
    [overview |-> Ranges(c.overview),
     rowgroups |-> Ranges(c.rowgroups),
     columnchunks |-> MapRanges(c.columnchunks),
     pages |-> MapRanges(c.pages),
     metadatastructure |-> Ranges(c.metadatastructure),
     schemaelements |-> MapRanges(c.schemaelements),
     rowgroupelements |-> MapRanges(c.rowgroupelements),
     indexelements |-> MapRanges(c.indexelements),
     keyvaluemetadata |-> MapRanges(c.keyvaluemetadata),
     columnchunkmetadata |-> MapRanges(c.columnchunkmetadata)]

PagesOfChunk(chunk) ==
    (IF chunk.dictionary_page = <<>> THEN <<>> ELSE <<chunk.dictionary_page[1]>>)
    \o (IF chunk.data_pages = <<>> THEN <<>> ELSE chunk.data_pages[1])
    \o (IF chunk.index_pages = <<>> THEN <<>> ELSE chunk.index_pages[1])

\* the page records the page segments were built from
PageRecords(segs) == [i \in 1..Len(segs) |-> segs[i].metadata]

\* the page segments looked up for column-chunk segment c are those of c's chunk
PagesFollow(c) ==
    LET pages == getSegmentsForLevel(cache, "pages", c.id)
        chunk == c.physicalMetadata[1]
    IN  /\ PageRecords(pages) = [i \in 1..Len(PagesOfChunk(chunk)) |-> <<PagesOfChunk(chunk)[i]>>]
        /\ \A i \in 1..Len(pages) :
              /\ pages[i].rowGroupIndex = c.rowGroupIndex
              /\ pages[i].chunkIndex = c.chunkIndex
              /\ pages[i].start = PagesOfChunk(chunk)[i].start_offset

\* C29: page lookup stays consistent with the re-sorted column chunks: for
\* every column-chunk segment c in cache.columnchunks,
\* getSegmentsForLevel(cache, 'pages', c.id) returns exactly the page segments
\* built from c.physicalMetadata, in the order dictionary page, data pages,
\* index pages.
C29_PagesFollowChunk ==
    Built => \A r \in 1..Len(cache.columnchunks) :
                \A j \in 1..Len(cache.columnchunks[r].v) : PagesFollow(cache.columnchunks[r].v[j])

\* a column-chunk segment that the sort moved away from its chunk index, with
\* a dictionary page and a data page looked up for it
C29_Witness ==
    /\ Built
    /\ \E r \in 1..Len(cache.columnchunks) :
          \E j \in 1..Len(cache.columnchunks[r].v) :
             LET c == cache.columnchunks[r].v[j]
             IN  /\ c.chunkIndex # j - 1
                 /\ c.physicalMetadata[1].dictionary_page # <<>>
                 /\ Len(getSegmentsForLevel(cache, "pages", c.id)) = 2
                 /\ PagesFollow(c)

\* every chunk record carries a numeric start_offset and total_byte_size
AllLocated ==
    \A p \in 1..Len(fileData.column_chunks) :
        /\ IsNum(fileData.column_chunks[p].start_offset)
        /\ IsNum(fileData.column_chunks[p].total_byte_size)

\* [start, end) of inner lies within [start, end) of outer
Within(inner, outer) == outer.start <= inner.start /\ inner.end <= outer.end

\* C30: byte-range containment along the physical hierarchy, for a payload
\* with numeric chunk offsets and sizes: every column-chunk segment lies
\* within the row-group segment of its rowGroupIndex, and every row-group
\* segment lies within the overview's 'rowgroups' segment.
C30_Containment ==
    (Built /\ AllLocated) =>
        /\ \A r \in 1..Len(cache.columnchunks) :
              \A j \in 1..Len(cache.columnchunks[r].v) :
                 \E k \in 1..Len(cache.rowgroups) :
                    /\ cache.rowgroups[k].rowGroupIndex = cache.columnchunks[r].v[j].rowGroupIndex
                    /\ Within(cache.columnchunks[r].v[j], cache.rowgroups[k])
        /\ \A k \in 1..Len(cache.rowgroups) :
              \E o \in 1..Len(cache.overview) :
                 /\ cache.overview[o].id = <<"rowgroups">>
                 /\ Within(cache.rowgroups[k], cache.overview[o])

\* two row groups over three located chunks: a chunk that ends before its
\* row group does, in a row group that ends before the 'rowgroups' segment does
C30_Witness ==
    /\ Built
    /\ AllLocated
    /\ Len(cache.rowgroups) = 2
    /\ Len(fileData.column_chunks) = 3
    /\ \E r \in 1..Len(cache.columnchunks) :
          \E j \in 1..Len(cache.columnchunks[r].v) :
             \E k \in 1..Len(cache.rowgroups) :
                /\ cache.rowgroups[k].rowGroupIndex = cache.columnchunks[r].v[j].rowGroupIndex
                /\ Within(cache.columnchunks[r].v[j], cache.rowgroups[k])
                /\ cache.columnchunks[r].v[j].end < cache.rowgroups[k].end
                /\ Within(cache.rowgroups[k], cache.overview[2])
                /\ cache.rowgroups[k].end < cache.overview[2].end

-----------------------------------------------------------------------------
(* Further properties of the navigation.                                     *)

\* C20: levels, selectedSegments and selectionPath change only in the step of
\* a segment click or a key press; no step of a timer or animation-frame
\* callback (the initial display among them) changes any of the three.
C20_OnlyEventsMutate ==
    [][<<levels, selectedSegments, selectionPath>>' # <<levels, selectedSegments, selectionPath>>
          => last'.op \in {"click", "escape", "backspace"}]_vars

MultiSwitchCase ==
    /\ ClickedUnselected
    /\ Len(last.levels) > last.levelIndex + 2
    /\ segmentHasChildren(cache, Clicked)

\* C21: with more than one level displayed below level L, a click at level L
\* on a not-selected segment B that has children removes every level deeper
\* than L and adds exactly one level: afterwards there are L + 2 levels, the
\* levels up to L are as before, and level L + 1 has B as its parent and B's
\* children as its segments.
C21_MultiLevelSwitch ==
    MultiSwitchCase =>
        /\ Len(levels) = last.levelIndex + 2
        /\ SliceTo(levels, last.levelIndex + 1) = SliceTo(last.levels, last.levelIndex + 1)
        /\ last.removed = SliceFrom(last.levels, last.levelIndex + 1)
        /\ Len(last.added) = 1
        /\ levels[last.levelIndex + 2] = last.added[1]
        /\ levels[last.levelIndex + 2].parentSegmentId = <<Clicked.id>>
        /\ levels[last.levelIndex + 2].segments
              = getSegmentsForLevel(cache, childLevelName(Clicked), Clicked.id)

\* three levels below the root replaced by the children of another root segment
C21_Witness ==
    /\ MultiSwitchCase
    /\ last.levelIndex = 0
    /\ Len(last.levels) >= 4
    /\ Len(last.removed) >= 3
    /\ Len(levels) = 2
    /\ levels[2].parentSegmentId = <<Clicked.id>>

ChildlessCase ==
    /\ ClickedUnselected
    /\ ~segmentHasChildren(cache, Clicked)

\* C22: a click at level L on a not-selected segment without children (no
\* child level name, or an empty child segment list) adds no level and removes
\* every level below L: afterwards there are L + 1 levels and the levels up to
\* L are unchanged.
C22_ChildlessClick ==
    ChildlessCase =>
        /\ last.added = <<>>
        /\ last.removed = SliceFrom(last.levels, last.levelIndex + 1)
        /\ Len(levels) = last.levelIndex + 1
        /\ levels = SliceTo(last.levels, last.levelIndex + 1)

\* a childless segment clicked while two or more levels were displayed below it
C22_Witness ==
    /\ ChildlessCase
    /\ Len(last.removed) >= 2
    /\ Len(levels) = last.levelIndex + 1

\* C25: the selection map and the selection path describe the same
\* selection: selectedSegments has exactly the keys 0 .. selectionPath.length - 1
\* and selectedSegments[i] is the id of selectionPath[i].
C25_SelectionAgrees ==
    /\ DOMAIN selectedSegments = 0..(Len(selectionPath) - 1)
    /\ \A i \in DOMAIN selectedSegments : selectedSegments[i] = selectionPath[i + 1].id

\* the segment of the level with index i - 1 that the level with index i hangs under
ParentOf(i) ==
    CHOOSE p \in Range(levels[i].segments) : <<p.id>> = levels[i + 1].parentSegmentId

\* the level with index i is linked to the selection of the level above it
Linked(i) ==
    /\ (i - 1) \in DOMAIN selectedSegments
    /\ levels[i + 1].parentSegmentId = <<selectedSegments[i - 1]>>
    /\ \E p \in Range(levels[i].segments) : <<p.id>> = levels[i + 1].parentSegmentId
    /\ levels[i + 1].segments =
          getSegmentsForLevel(cache, childLevelName(ParentOf(i)), ParentOf(i).id)

\* C26: every displayed child level is linked to the selection above it: for
\* every i >= 1, levels[i].parentSegmentId is selectedSegments[i-1], that
\* segment is one of levels[i-1].segments, and levels[i].segments is
\* getSegmentsForLevel(parent.childLevelName, parent.id).
C26_LevelsFollowSelection == \A i \in 1..(Len(levels) - 1) : Linked(i)

\* a click that replaced the levels below it left three or more levels
\* displayed, each one under the selection of the level above
C26_Witness ==
    /\ last.op = "click"
    /\ last.removed # <<>>
    /\ last.added # <<>>
    /\ Len(levels) >= 3
    /\ \A i \in 1..(Len(levels) - 1) : Linked(i)

\* the level the frame callback of initWithData adds
OverviewLevel == NewLevel("overview", <<>>, getSegmentsForLevel(cache, "overview", <<>>))

\* C28: once the initial overview level has been added the root level is
\* never removed or replaced: levels.length >= 1 and levels[0] is the
\* overview level with parentSegmentId = null.
C28_RootStays ==
    npc = "ready" => (Len(levels) >= 1 /\ levels[1] = OverviewLevel /\ levels[1].parentSegmentId = <<>>)

\* Escape or Backspace has just removed levels and left the root alone on the stack
C28_Witness ==
    /\ npc = "ready"
    /\ last.op \in {"escape", "backspace"}
    /\ last.removed # <<>>
    /\ levels = <<OverviewLevel>>

-----------------------------------------------------------------------------
(* Properties of the URL adapter *)

\* position of key in the recency order (1 = read longest ago)
Age(rec, key) == CHOOSE i \in 1..Len(rec) : rec[i] = key

\* C23: the chunk cache never holds more than 10 entries once a range fetch
\* has completed, and the entry evicted is the least recently used one: no
\* entry that stays in the cache was last read before the evicted entry was.
C23_LruEviction ==
    /\ Len(urlCache) <= MAX_CACHED_CHUNKS
    /\ (ulast.op = "fetched" /\ ulast.evicted # <<>>) =>
           \A k \in Range(urlCache) : Age(ulast.recent, ulast.evicted[1]) < Age(ulast.recent, k)

-----------------------------------------------------------------------------
(* Properties of the navigation with the SVG element *)

\* the last event was a click that changed the stack or the selection
ClickChangedState ==
    /\ last.op = "click"
    /\ <<levels, selectedSegments, selectionPath>> #
          <<last.levels, last.selectedSegments, last.selectionPath>>

\* the clicked rectangle belonged to a level that was on the stack
ClickOnDisplayed ==
    /\ last.levelIndex < Len(last.levels)
    /\ last.segment[1] \in Range(last.levels[last.levelIndex + 1].segments)

\* C24: a click on a segment rectangle whose level is no longer on the stack
\* (its group is still in the SVG element) adds no level and leaves the
\* selection alone: every click that changes state has levelIndex < levels.length
\* and a segment of levels[levelIndex].
C24_StaleClickIgnored == ClickChangedState => ClickOnDisplayed

\* no timer of a slide-up is pending
Settled == \A k \in 1..Len(dom) : dom[k].stage \notin {"scheduled", "sliding"}

\* the groups in the SVG element are the groups of the levels on the stack, one per level
DomIsStack ==
    /\ Len(dom) = Len(levels)
    /\ \A i \in 1..Len(levels) :
          \E k \in 1..Len(dom) :
             /\ dom[k].level = levels[i]
             /\ dom[k].levelIndex = i - 1
             /\ dom[k].stage = "shown"

\* C27: every level taken off the stack eventually has its group and funnel
\* removed from the SVG element: the pending timers all fire, and whenever
\* none is pending the level groups in the SVG element are exactly the groups
\* of the levels on the stack, one per level.
C27_GroupsRemoved == [](Settled => DomIsStack) /\ []<>Settled

\* a click replaced two levels at once and all the timers it set have fired
C27_Witness ==
    /\ last.op = "click"
    /\ Len(last.removed) >= 2
    /\ Len(last.added) = 1
    /\ Settled
    /\ DomIsStack

=============================================================================
